---------------------------- MODULE Spec2Model ----------------------------
(***************************************************************************)
(* A model of the prediction server's series provider                      *)
(* (src/server/routes/predict.ts): the in-memory cache, fetchStockData     *)
(* with its live fetch and its synthetic fallback, and generateDemoData.   *)
(*                                                                         *)
(* Representation.                                                         *)
(*  - A JavaScript string is a sequence of one-character strings, so that  *)
(*    includes / startsWith / parseFloat act on its characters.            *)
(*  - A JavaScript number that carries a price or a factor is an integer   *)
(*    in units of 1/SCALE (fixed point); NaN is the value NaN below.       *)
(*  - Date.now() is the variable now, in milliseconds.  A calendar date    *)
(*    (the YYYY-MM-DD prefix of toISOString) is the number of the UTC day, *)
(*    which orders and steps exactly as the ISO text does.                 *)
(*  - The Map `cache` is a sequence of entries in insertion order: that is *)
(*    the order Map.keys() iterates in.                                    *)
(***************************************************************************)
EXTENDS Integers, Sequences, FiniteSets, TLC

VARIABLES
  cache,      \* the Map: <<[key, data, timestamp], ...>> in insertion order
  now,        \* Date.now(), ms
  apiKeyEnv,  \* process.env.ALPHA_VANTAGE_API_KEY
  req,        \* req[r]: the fetchStockData call in slot r and where it is suspended
              \* (madeAt, when it was called, is history kept for watched)
  watched,    \* history: the symbol whose calls are recorded
  hist,       \* history: the last completed call for watched (when made, what it returned)
  last,       \* history: what the last step did
  out         \* the generator run on its own: input and output of one call

vars == <<cache, now, apiKeyEnv, req, watched, hist, last, out>>

----------------------------------------------------------------------------
(* Bounds of the model.                                                    *)

\* cache.size > 100 (predict.ts:20) is modelled with this capacity in place of 100.
MaxCache == 2
\* the generator's loop count 100 (predict.ts:165) and the slice(0, 100) of the
\* live series (predict.ts:126) are modelled with this count in place of 100.
NumBars == 2
\* calls that may be in flight at once
MaxReq == 2
\* how many steps the clock takes
MaxTicks == 2
\* length of the repeating pattern a random stream is built from (generator runs)
PatternLen == 3

----------------------------------------------------------------------------
(* Numbers.                                                                *)

\* fixed point: 1.0 is SCALE
SCALE == 100 * 100
NaN == 0 - 2147483647

Min(a, b) == IF a <= b THEN a ELSE b
Max(a, b) == IF a >= b THEN a ELSE b
Abs(a) == IF a < 0 THEN 0 - a ELSE a

\* a * f for a fixed-point factor f (f / SCALE), rounded down; split so that no
\* intermediate product leaves 32 bits
MulF(a, f) == (a \div SCALE) * f + ((a % SCALE) * f) \div SCALE

\* a / b as a fixed-point factor, rounded down (a, b >= 0, b > 0, a / b small)
DivF(a, b) == (a * SCALE) \div b

MS_PER_DAY == 24 * 60 * 60 * 1000
MINUTE == 60 * 1000

\* new Date(ms).toISOString().split('T')[0]: the UTC calendar day of ms
IsoDate(ms) == ms \div MS_PER_DAY

----------------------------------------------------------------------------
(* Strings.                                                                *)

StartsWith(s, p) == Len(s) >= Len(p) /\ SubSeq(s, 1, Len(p)) = p
Includes(s, p) == \E i \in 1..(Len(s) - Len(p) + 1) : SubSeq(s, i, i + Len(p) - 1) = p

AAPL == <<"A", "A", "P", "L">>
NVDA == <<"N", "V", "D", "A">>
BABA == <<"B", "A", "B", "A">>
ZZ == <<"Z", "Z">>
RELIANCE == <<"R", "E", "L", "I", "A", "N", "C", "E">>
TESLA == <<"T", "E", "S", "L", "A">>
CRYPTOX == <<"C", "R", "Y", "P", "T", "O", "X">>

\* `stock_${symbol}`
\* a key that leaves the symbol out: every symbol would share one entry
CacheKeyShared(symbol) == <<"s", "t", "o", "c", "k", "_">>

CacheKey(symbol) == <<"s", "t", "o", "c", "k", "_">> \o symbol

----------------------------------------------------------------------------
(* The cache.                                                              *)

CACHE_DURATION == 5 * 60 * 1000

Has(c, key) == \E i \in 1..Len(c) : c[i].key = key
\* a lookup that takes the first entry whatever its key
IndexOfFirst(c, key) == 1
IndexOf(c, key) == CHOOSE i \in 1..Len(c) : c[i].key = key
Get(c, key) == c[IndexOf(c, key)]
Keys(c) == {c[i].key : i \in 1..Len(c)}

\* a lookup that still takes an entry exactly CACHE_DURATION old
CacheFreshInclusive(c, key, t) == Has(c, key) /\ t - Get(c, key).timestamp <= CACHE_DURATION

\* a lookup with its comparison the wrong way round
CacheFreshInverted(c, key, t) == Has(c, key) /\ t - Get(c, key).timestamp > CACHE_DURATION

\* getCachedData's test: an entry, and younger than CACHE_DURATION
CacheFresh(c, key, t) == Has(c, key) /\ t - Get(c, key).timestamp < CACHE_DURATION

\* getCachedData: [hit, data]; hit = FALSE stands for the null it returns
GetCachedData(c, key, t) ==
  IF CacheFresh(c, key, t) THEN [hit |-> TRUE, data |-> Get(c, key).data]
  ELSE [hit |-> FALSE, data |-> <<>>]

\* a set that always adds an entry, also for a key already present
MapSetAppend(c, key, entry) == Append(c, entry)

\* Map.set: an existing key keeps its place in the order, a new one goes last
MapSet(c, key, entry) ==
  IF Has(c, key) THEN [c EXCEPT ![IndexOf(c, key)] = entry]
  ELSE Append(c, entry)

\* an eviction by age of the data: the first entry with the smallest timestamp goes
DeleteStalest(c) ==
  LET i == CHOOSE i \in 1..Len(c) :
             /\ \A j \in 1..Len(c) : c[i].timestamp <= c[j].timestamp
             /\ \A j \in 1..(i - 1) : c[i].timestamp < c[j].timestamp
  IN SubSeq(c, 1, i - 1) \o SubSeq(c, i + 1, Len(c))

\* cache.delete(Array.from(cache.keys())[0])
DeleteOldest(c) == Tail(c)

\* a store that evicts as soon as the cache reaches its limit
SetCachedDataEvictAtCap(c, key, data, t) ==
  LET c1 == MapSet(c, key, [key |-> key, data |-> data, timestamp |-> t])
  IN IF Len(c1) >= MaxCache THEN Tail(c1) ELSE c1

\* setCachedData
SetCachedData(c, key, data, t) ==
  LET c1 == MapSet(c, key, [key |-> key, data |-> data, timestamp |-> t])
  IN IF Len(c1) > MaxCache THEN DeleteOldest(c1) ELSE c1

----------------------------------------------------------------------------
(* generateDemoData.                                                       *)

\* STOCK_BASE_PRICES: <<symbol, price>>
STOCK_BASE_PRICES ==
  {
     <<<<"A", "A", "P", "L">>, 175>>,
     <<<<"M", "S", "F", "T">>, 350>>,
     <<<<"G", "O", "O", "G", "L">>, 140>>,
     <<<<"A", "M", "Z", "N">>, 155>>,
     <<<<"T", "S", "L", "A">>, 250>>,
     <<<<"N", "V", "D", "A">>, 800>>,
     <<<<"M", "E", "T", "A">>, 350>>,
     <<<<"N", "F", "L", "X">>, 450>>,
     <<<<"B", "A", "B", "A">>, 90>>,
     <<<<"V">>, 270>>,
     <<<<"R", "E", "L", "I", "A", "N", "C", "E">>, 2800>>,
     <<<<"T", "C", "S">>, 3500>>,
     <<<<"H", "D", "F", "C", "B", "A", "N", "K">>, 1600>>,
     <<<<"I", "N", "F", "Y">>, 1800>>,
     <<<<"H", "I", "N", "D", "U", "N", "I", "L", "V", "R">>, 2400>>,
     <<<<"I", "T", "C">>, 450>>,
     <<<<"S", "B", "I", "N">>, 750>>,
     <<<<"B", "H", "A", "R", "T", "I", "A", "R", "T", "L">>, 1200>>,
     <<<<"K", "O", "T", "A", "K", "B", "A", "N", "K">>, 1800>>,
     <<<<"L", "T">>, 3200>>,
     <<<<"A", "S", "I", "A", "N", "P", "A", "I", "N", "T">>, 3000>>,
     <<<<"M", "A", "R", "U", "T", "I">>, 11000>> }

\* STOCK_BASE_PRICES[symbol] || 150, in fixed point
BasePriceOf(symbol) ==
  IF \E e \in STOCK_BASE_PRICES : e[1] = symbol
  THEN (CHOOSE e \in STOCK_BASE_PRICES : e[1] = symbol)[2] * SCALE
  ELSE 150 * SCALE

\* Math.sin(i * 0.05), i = 0..99, in fixed point (entry i + 1)
SIN_LONG ==
  <<
     0, 500, 998, 1494, 1987, 2474, 2955, 3429, 3894, 4350,
     4794, 5227, 5646, 6052, 6442, 6816, 7174, 7513, 7833, 8134,
     8415, 8674, 8912, 9128, 9320, 9490, 9636, 9757, 9854, 9927,
     9975, 9998, 9996, 9969, 9917, 9840, 9738, 9613, 9463, 9290,
     9093, 8874, 8632, 8369, 8085, 7781, 7457, 7115, 6755, 6378,
     5985, 5577, 5155, 4720, 4274, 3817, 3350, 2875, 2392, 1904,
     1411, 915, 416, 0 - 84, 0 - 584, 0 - 1082, 0 - 1577, 0 - 2069, 0 - 2555, 0 - 3035,
     0 - 3508, 0 - 3971, 0 - 4425, 0 - 4868, 0 - 5298, 0 - 5716, 0 - 6119, 0 - 6506, 0 - 6878, 0 - 7232,
     0 - 7568, 0 - 7885, 0 - 8183, 0 - 8460, 0 - 8716, 0 - 8950, 0 - 9162, 0 - 9351, 0 - 9516, 0 - 9658,
     0 - 9775, 0 - 9868, 0 - 9937, 0 - 9981, 0 - 9999, 0 - 9993, 0 - 9962, 0 - 9905, 0 - 9825, 0 - 9719 >>

\* Math.sin(i * 0.2), i = 0..99, in fixed point (entry i + 1)
SIN_SHORT ==
  <<
     0, 1987, 3894, 5646, 7174, 8415, 9320, 9854, 9996, 9738,
     9093, 8085, 6755, 5155, 3350, 1411, 0 - 584, 0 - 2555, 0 - 4425, 0 - 6119,
     0 - 7568, 0 - 8716, 0 - 9516, 0 - 9937, 0 - 9962, 0 - 9589, 0 - 8835, 0 - 7728, 0 - 6313, 0 - 4646,
     0 - 2794, 0 - 831, 1165, 3115, 4941, 6570, 7937, 8987, 9679, 9985,
     9894, 9407, 8546, 7344, 5849, 4121, 2229, 248, 0 - 1743, 0 - 3665,
     0 - 5440, 0 - 6999, 0 - 8278, 0 - 9228, 0 - 9809, 0 - 10000, 0 - 9792, 0 - 9193, 0 - 8228, 0 - 6935,
     0 - 5366, 0 - 3582, 0 - 1656, 336, 2315, 4202, 5921, 7404, 8592, 9437,
     9906, 9980, 9657, 8948, 7883, 6503, 4864, 3031, 1078, 0 - 919,
     0 - 2879, 0 - 4724, 0 - 6381, 0 - 7784, 0 - 8876, 0 - 9614, 0 - 9969, 0 - 9927, 0 - 9488, 0 - 8672,
     0 - 7510, 0 - 6048, 0 - 4346, 0 - 2470, 0 - 495, 1499, 3433, 5231, 6820, 8137 >>

\* the values Math.random() is drawn from: [0, 1) in fixed point
RandomValues == {0, SCALE \div 2, SCALE - 1}

\* Math.random() calls of one generateDemoData run: 1 for the base price, 6 a bar
NumDraws == 1 + 6 * NumBars

\* the random stream that repeats pattern p
Stream(p) == [j \in 1..NumDraws |-> p[((j - 1) % Len(p)) + 1]]

\* Number(x.toFixed(2)): x > 0 rounded to the nearest cent, halves up
ToFixed2(x) == ((x + SCALE \div 200) \div (SCALE \div 100)) * (SCALE \div 100)

\* symbol.includes('CRYPTO') ? 0.05 : startsWith('TESLA') || startsWith('NVDA') ? 0.03 : 0.02
Volatility(symbol) ==
  IF Includes(symbol, <<"C", "R", "Y", "P", "T", "O">>) THEN (5 * SCALE) \div 100
  ELSE IF StartsWith(symbol, TESLA) \/ StartsWith(symbol, NVDA) THEN (3 * SCALE) \div 100
  ELSE (2 * SCALE) \div 100

\* symbol.startsWith('RELIANCE') ? 5000000 : symbol.startsWith('AAPL') ? 50000000 : 2000000
BaseVolume(symbol) ==
  IF StartsWith(symbol, RELIANCE) THEN 5000000
  ELSE IF StartsWith(symbol, AAPL) THEN 50000000
  ELSE 2000000

\* const dailyVolatility = 0.005
DailyVolatility == (5 * SCALE) \div 1000

\* basePrice after iteration i's walk: basePrice *= (1 + longTrend + shortTrend +
\* randomWalk), then Math.max(basePrice, 1); rw is the iteration's first draw
WalkPrice(symbol, i, basePrice, rw) ==
  LET longTrend == MulF(SIN_LONG[i + 1], (3 * SCALE) \div 1000)
      shortTrend == MulF(SIN_SHORT[i + 1], (1 * SCALE) \div 1000)
      randomWalk == MulF(rw - SCALE \div 2, Volatility(symbol))
  IN Max(MulF(basePrice, SCALE + longTrend + shortTrend + randomWalk), 1 * SCALE)

\* the prices and the volume of the bar pushed by iteration i: bp is the walked
\* base price, d the iteration's draws 2..6 (open, close, high, low, volume)
DemoRow(symbol, bp, d) ==
  LET open == MulF(bp, SCALE + MulF(d[1] - SCALE \div 2, DailyVolatility))
      close == MulF(bp, SCALE + MulF(d[2] - SCALE \div 2, DailyVolatility))
      high == MulF(Max(open, close), SCALE + MulF(d[3], DailyVolatility) * 2)
      low == MulF(Min(open, close), SCALE - MulF(d[4], DailyVolatility) * 2)
      priceChange == DivF(Abs(close - open), open)
      volume == MulF(MulF(BaseVolume(symbol), SCALE + priceChange * 5), SCALE \div 2 + d[5])
  IN [open |-> ToFixed2(open),
      high |-> ToFixed2(high),
      low |-> ToFixed2(low),
      close |-> ToFixed2(close),
      volume |-> volume]

RECURSIVE DemoLoop(_, _, _, _, _)
\* the for loop from iteration i on, the dates left out: rnd[j] is what the j-th
\* Math.random() returns
DemoLoop(symbol, i, basePrice, rows, rnd) ==
  IF i >= NumBars THEN rows
  ELSE LET bp == WalkPrice(symbol, i, basePrice, rnd[2 + 6 * i])
           d == [k \in 1..5 |-> rnd[2 + 6 * i + k]]
       IN DemoLoop(symbol, i + 1, bp, Append(rows, DemoRow(symbol, bp, d)), rnd)

\* the prices and volumes of generateDemoData(symbol)
DemoRows(symbol, rnd) ==
  LET basePrice == MulF(BasePriceOf(symbol), (9 * SCALE) \div 10 + MulF(rnd[1], (2 * SCALE) \div 10))
  IN DemoLoop(symbol, 0, basePrice, <<>>, rnd)

\* the date of the bar pushed by iteration i, t being the iteration's Date.now():
\* new Date(Date.now() - (99 - i) * 24 * 60 * 60 * 1000).toISOString().split('T')[0]
DemoDate(i, t) == IsoDate(t - (NumBars - 1 - i) * MS_PER_DAY)

\* the symbols requested of the provider
Symbols == {AAPL, NVDA, ZZ}

\* the random streams of the provider's runs: every draw lowest, every draw highest
ProviderStreams == {Stream(<<0>>), Stream(<<SCALE - 1>>)}

\* DemoRows for the provider's symbols and streams, computed once
ProviderRows == [s \in Symbols |-> [rnd \in ProviderStreams |-> DemoRows(s, rnd)]]

\* generateDemoData(symbol): readings[i + 1] is what Date.now() returns in
\* iteration i
GenerateDemoData(symbol, readings, rnd) ==
  LET rows == IF symbol \in Symbols /\ rnd \in ProviderStreams
              THEN ProviderRows[symbol][rnd]
              ELSE DemoRows(symbol, rnd)
  IN [k \in 1..NumBars |->
        [date |-> DemoDate(k - 1, readings[k]),
         open |-> rows[k].open,
         high |-> rows[k].high,
         low |-> rows[k].low,
         close |-> rows[k].close,
         volume |-> rows[k].volume]]

----------------------------------------------------------------------------
(* The live payload and its parsing.                                       *)

Digits == <<"0", "1", "2", "3", "4", "5", "6", "7", "8", "9">>
IsDigit(c) == \E k \in 1..10 : Digits[k] = c
DigitVal(c) == (CHOOSE k \in 1..10 : Digits[k] = c) - 1

RECURSIVE SkipSpaces(_, _)
\* the first index at or after i that holds no white space
SkipSpaces(s, i) == IF i <= Len(s) /\ s[i] = " " THEN SkipSpaces(s, i + 1) ELSE i

RECURSIVE DigitRun(_, _)
\* how many digits stand at i, i + 1, ...
DigitRun(s, i) == IF i <= Len(s) /\ IsDigit(s[i]) THEN 1 + DigitRun(s, i + 1) ELSE 0

RECURSIVE DigitsValue(_, _, _)
\* the decimal value of the n digits that start at i
DigitsValue(s, i, n) ==
  IF n = 0 THEN 0 ELSE DigitsValue(s, i, n - 1) * 10 + DigitVal(s[i + n - 1])

RECURSIVE FractionValue(_, _, _, _)
\* the fixed-point value of the n digits after the point that start at i; w is the
\* weight of the first of them (digits below the resolution are dropped)
FractionValue(s, i, n, w) ==
  IF n = 0 \/ w = 0 THEN 0
  ELSE DigitVal(s[i]) * w + FractionValue(s, i + 1, n - 1, w \div 10)

\* parseFloat(s): the longest decimal prefix after leading white space (sign,
\* digits, a point, digits), in fixed point; NaN when it holds no digit
ParseFloat(s) ==
  LET i0 == SkipSpaces(s, 1)
      signed == i0 <= Len(s) /\ s[i0] \in {"+", "-"}
      i1 == IF signed THEN i0 + 1 ELSE i0
      n1 == DigitRun(s, i1)
      dot == i1 + n1 <= Len(s) /\ s[i1 + n1] = "."
      n2 == IF dot THEN DigitRun(s, i1 + n1 + 1) ELSE 0
      v == DigitsValue(s, i1, n1) * SCALE + FractionValue(s, i1 + n1 + 1, n2, SCALE \div 10)
  IN IF n1 + n2 = 0 THEN NaN
     ELSE IF signed /\ s[i0] = "-" THEN 0 - v ELSE v

\* parseInt(s): the longest run of digits after leading white space and a sign;
\* NaN when there is none
ParseInt(s) ==
  LET i0 == SkipSpaces(s, 1)
      signed == i0 <= Len(s) /\ s[i0] \in {"+", "-"}
      i1 == IF signed THEN i0 + 1 ELSE i0
      n1 == DigitRun(s, i1)
      v == DigitsValue(s, i1, n1)
  IN IF n1 = 0 THEN NaN
     ELSE IF signed /\ s[i0] = "-" THEN 0 - v ELSE v

\* a property read that yields undefined, as parseFloat / parseInt see it
UNDEFINED == <<"u", "n", "d", "e", "f", "i", "n", "e", "d">>

Reverse(s) == [i \in 1..Len(s) |-> s[Len(s) + 1 - i]]

\* the map callback of fetchStockData: one [date, values] entry to a bar
ParseEntry(e) ==
  [date |-> e.date,
   open |-> ParseFloat(e.values.open),
   high |-> ParseFloat(e.values.high),
   low |-> ParseFloat(e.values.low),
   close |-> ParseFloat(e.values.close),
   volume |-> ParseInt(e.values.volume)]

\* Object.entries(timeSeries).slice(0, 100)
SliceEntries(ts) == SubSeq(ts, 1, Min(NumBars, Len(ts)))

\* Object.entries(timeSeries).slice(0, 100).map(...).reverse()
ParseTimeSeries(ts) ==
  LET head == SliceEntries(ts)
  IN Reverse([i \in 1..Len(head) |-> ParseEntry(head[i])])

\* data["Error Message"] || data["Note"]
HasMarker(body) == body.errorMessage \/ body.note

\* what lines 111-139 throw on: a null document (a property read of null), or a
\* null entry among those mapped
BodyThrows(body) ==
  \/ body.isNull
  \/ /\ ~HasMarker(body)
     /\ body.hasTimeSeries
     /\ \E i \in 1..Len(SliceEntries(body.timeSeries)) : body.timeSeries[i].values.isNull


----------------------------------------------------------------------------
(* The inputs the model draws from.                                        *)

\* process.env.ALPHA_VANTAGE_API_KEY: unset, empty, the word demo, a key
DEMO == <<"d", "e", "m", "o">>
EnvValues ==
  {[set |-> FALSE, value |-> <<>>],
   [set |-> TRUE, value |-> <<>>],
   [set |-> TRUE, value |-> DEMO],
   [set |-> TRUE, value |-> <<"K", "1">>]}

\* the instant the model starts at: a UTC midnight
StartTime == 10 * MS_PER_DAY
Today == IsoDate(StartTime)

\* the clock moves in steps of half of CACHE_DURATION, so that an entry is seen
\* younger than CACHE_DURATION, exactly that old, and older
TickStep == CACHE_DURATION \div 2
EndTime == StartTime + MaxTicks * TickStep

GoodValues ==
  [isNull |-> FALSE,
   open |-> <<"1", "0", ".", "5", "0", "0", "0">>,
   high |-> <<"1", "1", ".", "2", "5">>,
   low |-> <<"1", "0">>,
   close |-> <<"1", "0", ".", "7", "5">>,
   volume |-> <<"1", "2", "0", "0">>]
GarbageValues ==
  [isNull |-> FALSE,
   open |-> <<"n", "/", "a">>,
   high |-> UNDEFINED,
   low |-> <<>>,
   close |-> <<"1", "2", "x">>,
   volume |-> <<"1", ".", "5", "e", "3">>]
NullValues ==
  [isNull |-> TRUE, open |-> UNDEFINED, high |-> UNDEFINED, low |-> UNDEFINED,
   close |-> UNDEFINED, volume |-> UNDEFINED]

\* n daily entries ending yesterday, newest first (the order the provider sends)
NewestFirst(n, values) == [i \in 1..n |-> [date |-> Today - i, values |-> values]]
\* the same entries, oldest first
OldestFirst(n, values) == Reverse(NewestFirst(n, values))

Document(err, note, has, ts) ==
  [isNull |-> FALSE, errorMessage |-> err, note |-> note, hasTimeSeries |-> has,
   timeSeries |-> ts]
NullBody ==
  [isNull |-> TRUE, errorMessage |-> FALSE, note |-> FALSE, hasTimeSeries |-> FALSE,
   timeSeries |-> <<>>]
ErrorBody == Document(TRUE, FALSE, FALSE, <<>>)
NoteBody == Document(FALSE, TRUE, TRUE, NewestFirst(1, GoodValues))
NoSeriesBody == Document(FALSE, FALSE, FALSE, <<>>)
EmptySeriesBody == Document(FALSE, FALSE, TRUE, <<>>)
NewestFirstBody == Document(FALSE, FALSE, TRUE, NewestFirst(NumBars + 1, GoodValues))
OldestFirstBody == Document(FALSE, FALSE, TRUE, OldestFirst(NumBars + 1, GoodValues))
ShortBody == Document(FALSE, FALSE, TRUE, NewestFirst(1, GoodValues))
GarbageBody == Document(FALSE, FALSE, TRUE, NewestFirst(1, GarbageValues))
NullEntryBody == Document(FALSE, FALSE, TRUE, NewestFirst(1, NullValues))

\* the documents response.json() may resolve to
Bodies ==
  {NullBody, ErrorBody, NoSeriesBody, NewestFirstBody}

\* Date.now() read once in every iteration, the clock standing still
Still(t) == [i \in 1..NumBars |-> t]

----------------------------------------------------------------------------
(* fetchStockData.                                                         *)

\* the variable read without its default
ApiKeyNoDefault(env) == env.value

\* process.env.ALPHA_VANTAGE_API_KEY || "demo"
ApiKey(env) == IF ~env.set \/ env.value = <<>> THEN DEMO ELSE env.value

\* a try block without its catch
Rethrow(path) == path

\* try { ... } catch (error) { ... }: whatever the try block throws takes the
\* catch block
Catch(path) == IF path = "throw" THEN "catch" ELSE path

\* the path lines 111-139 take on a parsed document
BodyPath(body) ==
  IF BodyThrows(body) THEN "throw"
  ELSE IF HasMarker(body) THEN "marker"
  ELSE IF ~body.hasTimeSeries THEN "noTimeSeries"
  ELSE "live"

Idle == [pc |-> "idle", symbol |-> <<>>, madeAt |-> 0]
NoHist == [has |-> FALSE, madeAt |-> 0, series |-> <<>>]
NoOut == [fn |-> "none", symbol |-> <<>>, readings |-> <<>>, rnd |-> <<>>, data |-> <<>>]
ReqIds == 1..MaxReq

\* the entries of c that c2 no longer holds
Evicted(c, c2) == SelectSeq(c, LAMBDA e : ~Has(c2, e.key))

\* what a step did: kind names it; data is what a call returned, drew whether the
\* generator ran, body the document a live fetch read, evicted the entries deleted
Event(kind, symbol, data, drew, body, evicted) ==
  [kind |-> kind, symbol |-> symbol, data |-> data, drew |-> drew, body |-> body,
   evicted |-> evicted]

\* the call in slot r settles: it returns data to its caller
Return(r, symbol, madeAt, data, kind, drew, body) ==
  /\ req' = [req EXCEPT ![r] = Idle]
  /\ hist' = IF symbol = watched
             THEN [has |-> TRUE, madeAt |-> madeAt, series |-> data]
             ELSE hist
  /\ last' = Event(kind, symbol, data, drew, body, Evicted(cache, cache'))

\* a fallback that returns the generated series without storing it
FallbackUnstored(r, symbol, madeAt, kind, body) ==
  \E rnd \in ProviderStreams :
    \E stockData \in {GenerateDemoData(symbol, Still(now), rnd)} :
      /\ UNCHANGED cache
      /\ Return(r, symbol, madeAt, stockData, kind, TRUE, body)

\* const stockData = generateDemoData(symbol); setCachedData(cacheKey, stockData);
\* return stockData
Fallback(r, symbol, madeAt, kind, body) ==
  \E rnd \in ProviderStreams :
    \E stockData \in {GenerateDemoData(symbol, Still(now), rnd)} :
      /\ cache' = SetCachedData(cache, CacheKey(symbol), stockData, now)
      /\ Return(r, symbol, madeAt, stockData, kind, TRUE, body)

\* a call that stays suspended whatever its fetch does
SettleStuck(r, path, kind, body) ==
  /\ last' = Event("pending", req[r].symbol, <<>>, FALSE, body, <<>>)
  /\ UNCHANGED <<cache, req, hist>>

\* the try block of the call in slot r has taken path; kind names the event
Settle(r, path, kind, body) ==
  LET symbol == req[r].symbol
      madeAt == req[r].madeAt
  IN IF Catch(path) = "throw"
     THEN \* the exception leaves fetchStockData: its promise rejects
          /\ UNCHANGED cache
          /\ Return(r, symbol, madeAt, <<>>, "error", FALSE, body)
     ELSE IF Catch(path) = "live"
     THEN \E stockData \in {ParseTimeSeries(body.timeSeries)} :
            /\ cache' = SetCachedData(cache, CacheKey(symbol), stockData, now)
            /\ Return(r, symbol, madeAt, stockData, kind, FALSE, body)
     ELSE Fallback(r, symbol, madeAt, kind, body)

\* fetchStockData(symbol) is called and runs to its return or to the await of
\* line 108: lines 87-108.  The call touches nothing shared between that await and
\* the await of response.json() on line 109, so pc = "await" stands for both.
Call(r, symbol) ==
  /\ req[r].pc = "idle"
  /\ \A q \in 1..(r - 1) : req[q].pc # "idle"
  /\ LET cachedData == GetCachedData(cache, CacheKey(symbol), now)
     IN IF cachedData.hit
        THEN /\ UNCHANGED cache
             /\ Return(r, symbol, now, cachedData.data, "hit", FALSE, NoSeriesBody)
        ELSE IF ApiKey(apiKeyEnv) = DEMO
        THEN Fallback(r, symbol, now, "demo", NoSeriesBody)
        ELSE /\ req' = [req EXCEPT ![r] = [pc |-> "await", symbol |-> symbol,
                                            madeAt |-> IF symbol = watched THEN now ELSE 0]]
             /\ last' = Event("fetch", symbol, <<>>, FALSE, NoSeriesBody, <<>>)
             /\ UNCHANGED <<cache, hist>>
  /\ UNCHANGED <<now, apiKeyEnv, watched, out>>

\* a failed fetch that is issued again
FetchRetries(r) ==
  /\ req[r].pc = "await"
  /\ last' = Event("fetch", req[r].symbol, <<>>, FALSE, NoSeriesBody, <<>>)
  /\ UNCHANGED <<cache, req, hist, now, apiKeyEnv, watched, out>>

\* await fetch(url, { timeout: 10000 }) rejects: no connection, or the timeout
FetchRejects(r) ==
  /\ req[r].pc = "await"
  /\ Settle(r, "throw", "fetchRejected", NoSeriesBody)
  /\ UNCHANGED <<now, apiKeyEnv, watched, out>>

\* await fetch(...) resolves and await response.json() rejects: the body is no
\* JSON, or the timeout
JsonRejects(r) ==
  /\ req[r].pc = "await"
  /\ Settle(r, "throw", "jsonRejected", NoSeriesBody)
  /\ UNCHANGED <<now, apiKeyEnv, watched, out>>

\* await fetch(...) resolves, await response.json() resolves to body, and the
\* call runs to its return: lines 111-145
JsonResolves(r, body) ==
  /\ req[r].pc = "await"
  /\ Settle(r, BodyPath(body), Catch(BodyPath(body)), body)
  /\ UNCHANGED <<now, apiKeyEnv, watched, out>>

\* time passes
Tick ==
  /\ now + TickStep <= EndTime
  /\ now' = now + TickStep
  /\ last' = Event("tick", <<>>, <<>>, FALSE, NoSeriesBody, <<>>)
  /\ UNCHANGED <<cache, apiKeyEnv, req, watched, hist, out>>

\* the process has started: the cache is empty, nothing is in flight
Start ==
  /\ cache = <<>>
  /\ apiKeyEnv \in EnvValues
  /\ req = [r \in ReqIds |-> Idle]
  /\ hist = NoHist
  /\ last = Event("init", <<>>, <<>>, FALSE, NoSeriesBody, <<>>)
  /\ out = NoOut

\* no symbol's calls are recorded
Init == Start /\ now = StartTime /\ watched = <<>>

\* the calls of one symbol are recorded
InitWatch == Start /\ now = StartTime /\ watched = AAPL

Next ==
  \/ \E r \in ReqIds, symbol \in Symbols : Call(r, symbol)
  \/ \E r \in ReqIds : FetchRejects(r)
  \/ \E r \in ReqIds : JsonRejects(r)
  \/ \E r \in ReqIds, body \in Bodies : JsonResolves(r, body)
  \/ Tick

Spec == Init /\ [][Next]_vars

SpecWatch == InitWatch /\ [][Next]_vars

----------------------------------------------------------------------------
(* The live source alone: one symbol, a key configured, every document.    *)

\* every order the keys of a document's daily series can come in
KeyOrders(ts) == {[i \in 1..Len(ts) |-> ts[f[i]]] : f \in Permutations(1..Len(ts))}

\* the documents response.json() may resolve to
LiveBodies ==
  {NullBody, ErrorBody, NoteBody, NoSeriesBody, EmptySeriesBody, ShortBody,
   GarbageBody, NullEntryBody}
  \cup {Document(FALSE, FALSE, TRUE, ts) : ts \in KeyOrders(NewestFirst(NumBars + 1, GoodValues))}

InitLive ==
  /\ Start
  /\ now = StartTime
  /\ apiKeyEnv = [set |-> TRUE, value |-> <<"K", "1">>]
  /\ watched = <<>>

NextLive ==
  \/ \E r \in ReqIds : Call(r, AAPL)
  \/ \E r \in ReqIds : FetchRejects(r)
  \/ \E r \in ReqIds : JsonRejects(r)
  \/ \E r \in ReqIds, body \in LiveBodies : JsonResolves(r, body)
  \/ Tick

SpecLive == InitLive /\ [][NextLive]_vars

\* the fetch of the call in slot r settles: it resolves or rejects, or the timeout
\* of line 108 cuts it off, and the body read settles likewise
Settles(r) ==
  \/ FetchRejects(r)
  \/ JsonRejects(r)
  \/ \E body \in LiveBodies : JsonResolves(r, body)

\* the live source with every pending fetch settling in the end (timeout: 10000)
SpecLiveFair == SpecLive /\ \A r \in ReqIds : WF_vars(Settles(r))

----------------------------------------------------------------------------
(* generateDemoData alone.                                                 *)

\* the symbols the generator is run on: one for each branch of its tables
GenSymbols == {AAPL, NVDA, BABA, ZZ, RELIANCE, TESLA, CRYPTOX}

\* the random streams the generator is run on
GenStreams == {Stream(p) : p \in [1..PatternLen -> RandomValues]}

\* the instants the generator is called at: the last millisecond of a UTC day, and
\* a noon
GenTimes == {StartTime - 1, StartTime + MS_PER_DAY \div 2}

\* what Date.now() returns in the iterations of a run called at t: the clock
\* stands still, or moves on by a millisecond after c iterations
Readings(t) ==
  {[i \in 1..NumBars |-> IF i <= c THEN t ELSE t + 1] : c \in 1..NumBars}

InitGen ==
  /\ Start
  /\ now \in GenTimes
  /\ apiKeyEnv = [set |-> FALSE, value |-> <<>>]
  /\ watched = <<>>

\* generateDemoData(symbol) is called and returns
GenRun(symbol, rnd, readings) ==
  /\ out.fn = "none"
  /\ out' = [fn |-> "generateDemoData", symbol |-> symbol, readings |-> readings,
             rnd |-> rnd, data |-> GenerateDemoData(symbol, readings, rnd)]
  /\ now' = readings[NumBars]
  /\ UNCHANGED <<cache, apiKeyEnv, req, watched, hist, last>>

NextGen ==
  \E symbol \in GenSymbols, rnd \in GenStreams :
    \E readings \in Readings(now) : GenRun(symbol, rnd, readings)

SpecGen == InitGen /\ [][NextGen]_vars

----------------------------------------------------------------------------
(* The indicators and analyzeStock.  Prices and averages are fixed-point    *)
(* numbers of SCALE units; NaN is the one not-a-number value, which every   *)
(* sum and product hands on and every comparison answers with false.  A     *)
(* read past the end of an array, undefined, compares like NaN.             *)

IsNaN(x) == x = NaN
AddN(a, b) == IF IsNaN(a) \/ IsNaN(b) THEN NaN ELSE a + b
SubN(a, b) == IF IsNaN(a) \/ IsNaN(b) THEN NaN ELSE a - b
\* a / n for a count n
DivN(a, n) == IF IsNaN(a) THEN NaN ELSE a \div n
\* a > b, a < b
GtN(a, b) == ~IsNaN(a) /\ ~IsNaN(b) /\ a > b
LtN(a, b) == ~IsNaN(a) /\ ~IsNaN(b) /\ a < b
\* Math.pow(x, 2)
Pow2N(x) == IF IsNaN(x) THEN NaN ELSE MulF(Abs(x), Abs(x))

RECURSIVE SqrtFrom(_, _, _)
\* the largest r in lo..hi with r * r <= x
SqrtFrom(x, lo, hi) ==
  IF lo >= hi THEN lo
  ELSE LET mid == (lo + hi + 1) \div 2
       IN IF mid * mid <= x THEN SqrtFrom(x, mid, hi) ELSE SqrtFrom(x, lo, mid - 1)
\* Math.sqrt(x), to a hundredth
SqrtN(x) ==
  IF IsNaN(x) \/ x < 0 THEN NaN ELSE SqrtFrom(x, 0, 40000) * 100

RECURSIVE SumRange(_, _, _)
\* the sum of values[lo], ..., values[hi], by halves
SumRange(values, lo, hi) ==
  IF lo > hi THEN 0
  ELSE IF lo = hi THEN values[lo]
  ELSE AddN(SumRange(values, lo, (lo + hi) \div 2), SumRange(values, (lo + hi) \div 2 + 1, hi))
\* values.reduce((sum, v) => sum + v, 0)
SumN(values) == SumRange(values, 1, Len(values))

\* values.slice(-n)
SliceLast(values, n) ==
  IF Len(values) <= n THEN values ELSE SubSeq(values, Len(values) - n + 1, Len(values))
\* values.slice(-a, -b)
SliceBetween(values, a, b) ==
  SubSeq(values, Max(Len(values) - a, 0) + 1, Max(Len(values) - b, 0))

\* the default period of calculateRSI and calculateBollingerBands, and the
\* windows analyzeStock passes
RSI_PERIOD == 14
BB_PERIOD == 20
SMA_SHORT == 10
SMA_LONG == 50
VOLUME_RECENT == 5
VOLUME_OLDER == 15
VOLUME_FROM == 20

\* 100 / d for a fixed-point d > 0, digit by digit
HundredOver(d) ==
  LET whole == (100 * SCALE) \div d
      r1 == (100 * SCALE) % d
      q1 == (r1 * 100) \div d
      r2 == (r1 * 100) % d
      q2 == (r2 * 100) \div d
  IN whole * SCALE + q1 * 100 + q2

\* calculateRSI without its test for an average loss of zero: 0 / 0 is NaN, and
\* a gain over no loss is Infinity, for which 100 - 100 / (1 + rs) is 100
CalculateRSIUnguarded(prices, period) ==
  IF Len(prices) < period + 1 THEN 50 * SCALE
  ELSE LET changes == [i \in 1..(Len(prices) - 1) |-> SubN(prices[i + 1], prices[i])]
           gains == [i \in 1..Len(changes) |-> IF GtN(changes[i], 0) THEN changes[i] ELSE 0]
           losses == [i \in 1..Len(changes) |-> IF LtN(changes[i], 0) THEN 0 - changes[i] ELSE 0]
           avgGain == DivN(SumN(SliceLast(gains, period)), period)
           avgLoss == DivN(SumN(SliceLast(losses, period)), period)
       IN IF avgLoss = 0 THEN (IF avgGain = 0 THEN NaN ELSE 100 * SCALE)
          ELSE 100 * SCALE - HundredOver(SCALE + DivF(avgGain, avgLoss))

\* calculateRSI(prices, period)
CalculateRSI(prices, period) ==
  IF Len(prices) < period + 1 THEN 50 * SCALE
  ELSE LET changes == [i \in 1..(Len(prices) - 1) |-> SubN(prices[i + 1], prices[i])]
           gains == [i \in 1..Len(changes) |-> IF GtN(changes[i], 0) THEN changes[i] ELSE 0]
           losses == [i \in 1..Len(changes) |-> IF LtN(changes[i], 0) THEN 0 - changes[i] ELSE 0]
           avgGain == DivN(SumN(SliceLast(gains, period)), period)
           avgLoss == DivN(SumN(SliceLast(losses, period)), period)
       IN IF avgLoss = 0 THEN 100 * SCALE
          ELSE LET rs == DivF(avgGain, avgLoss)
               IN 100 * SCALE - HundredOver(SCALE + rs)

\* an average that, for an array shorter than the period, averages what there is
CalculateSMAOfAvailable(prices, period) ==
  IF prices = <<>> THEN NaN
  ELSE DivN(SumN(SliceLast(prices, period)), Min(period, Len(prices)))

\* calculateSMA(prices, period); prices[prices.length - 1] of an empty array is
\* undefined
CalculateSMA(prices, period) ==
  IF Len(prices) < period
  THEN IF prices = <<>> THEN NaN ELSE prices[Len(prices)]
  ELSE DivN(SumN(SliceLast(prices, period)), period)

\* calculateBollingerBands(prices, period)
CalculateBollingerBands(prices, period) ==
  LET sma == CalculateSMA(prices, period)
      recent == SliceLast(prices, period)
      variance == DivN(SumN([i \in 1..Len(recent) |-> Pow2N(SubN(recent[i], sma))]), period)
      stdDev == SqrtN(variance)
  IN [upper |-> AddN(sma, IF IsNaN(stdDev) THEN NaN ELSE 2 * stdDev),
      middle |-> sma,
      lower |-> SubN(sma, IF IsNaN(stdDev) THEN NaN ELSE 2 * stdDev)]

\* Math.round(x * 100) / 100
Round2(x) == IF IsNaN(x) THEN NaN ELSE ((x + 50) \div 100) * 100

\* analyzeStock(stockData), for a series of at least one bar
AnalyzeStock(stockData) ==
  LET closes == [i \in 1..Len(stockData) |-> stockData[i].close]
      volumes == [i \in 1..Len(stockData) |-> stockData[i].volume]
      rsi == CalculateRSI(closes, RSI_PERIOD)
      sma10 == CalculateSMA(closes, SMA_SHORT)
      sma50 == CalculateSMA(closes, SMA_LONG)
      bb == CalculateBollingerBands(closes, BB_PERIOD)
      currentPrice == closes[Len(closes)]
      recentVolume == CalculateSMA(volumes, VOLUME_RECENT)
      olderVolume == CalculateSMA(SliceBetween(volumes, VOLUME_FROM, VOLUME_RECENT), VOLUME_OLDER)
  IN [rsi |-> Round2(rsi),
      trend |-> IF GtN(sma10, sma50) THEN "BULLISH" ELSE "BEARISH",
      volatility |-> IF GtN(currentPrice, bb.upper) THEN "HIGH"
                     ELSE IF LtN(currentPrice, bb.lower) THEN "LOW"
                     ELSE "NORMAL",
      volume_trend |-> IF GtN(recentVolume, olderVolume) THEN "INCREASING" ELSE "DECREASING"]

----------------------------------------------------------------------------
(* makePrediction.  score and confidence are IEEE doubles.  Each is kept as *)
(* [v, u]: v is the exact value of the arithmetic in units of 1 / UNIT (all  *)
(* values of the scorer are whole numbers of units), and u tells where the   *)
(* double the code holds lies: 0 when it is the double nearest to v, 1 when  *)
(* it is larger in magnitude.  A comparison with a literal looks at v and,   *)
(* when v equals the literal, at u.                                          *)

UNIT == 12 * 100

Dbl(v, u) == [v |-> v, u |-> u]
FromInt(n) == Dbl(n * UNIT, 0)

\* the products and quotients of the scorer that IEEE arithmetic rounds to the
\* double above the one nearest to the exact result, as <<|v|, u, n, d>> for an
\* operand [v, u] times n / d.  <<3600, 0, 8, 10>> is 3 * 0.8 =
\* 2.4000000000000004, <<2880, 1, 1, 4>> is 2.4000000000000004 / 4 =
\* 0.6000000000000001, <<900, 0, 8, 10>> is 0.75 * 0.8 = 0.6000000000000001.
INEXACT ==
  {<<240, 0, 8, 10>>, <<480, 0, 8, 10>>, <<480, 1, 8, 10>>, <<720, 1, 8, 10>>,
   <<900, 0, 8, 10>>, <<960, 0, 8, 10>>, <<960, 0, 9, 10>>, <<1920, 0, 9, 10>>,
   <<2880, 1, 1, 4>>, <<2880, 1, 1, 6>>, <<2880, 1, 9, 10>>, <<3600, 0, 8, 10>>,
   <<3840, 0, 9, 10>>}

\* a product that divides by the factor it is to multiply by
FTimesInverted(x, n, d) == Dbl((x.v * d) \div n, 0)

\* a product that leaves its operand as it is
FTimesDropped(x, n, d) == x

\* x * (n / d) in double arithmetic
FTimes(x, n, d) ==
  Dbl((x.v * n) \div d, IF <<Abs(x.v), x.u, n, d>> \in INEXACT THEN 1 ELSE 0)

\* Math.abs(x)
FAbs(x) == Dbl(Abs(x.v), x.u)

\* the side of v the double lies on
Lean(x) == IF x.v < 0 THEN 0 - x.u ELSE x.u

\* x > n / d and x < n / d for a literal n / d
FGt(x, n, d) == x.v * d > n * UNIT \/ (x.v * d = n * UNIT /\ Lean(x) > 0)
FLt(x, n, d) == x.v * d < n * UNIT \/ (x.v * d = n * UNIT /\ Lean(x) < 0)

\* Math.min(x, 1)
FMin1(x) == IF FGt(x, 1, 1) THEN FromInt(1) ELSE x

\* Math.round(x * 100) for x >= 0: halves go up
RoundPercent(x) ==
  LET t == x.v * 200 + UNIT
  IN IF t % (2 * UNIT) = 0 /\ x.u < 0 THEN t \div (2 * UNIT) - 1 ELSE t \div (2 * UNIT)

\* a variant of the RSI signal that counts an RSI of exactly 30 as oversold
RsiSignalInclusive(rsi) ==
  IF ~IsNaN(rsi) /\ rsi <= 30 * SCALE THEN 2
  ELSE IF GtN(rsi, 70 * SCALE) THEN 0 - 2
  ELSE IF LtN(rsi, 50 * SCALE) THEN 1
  ELSE 0 - 1

\* the RSI signal: lines 246-258
RsiSignal(rsi) ==
  IF LtN(rsi, 30 * SCALE) THEN 2
  ELSE IF GtN(rsi, 70 * SCALE) THEN 0 - 2
  ELSE IF LtN(rsi, 50 * SCALE) THEN 1
  ELSE 0 - 1

\* the trend signal: lines 261-267
TrendSignal(trend) == IF trend = "BULLISH" THEN 1 ELSE 0 - 1

\* the volume signal and whether it counts as one: lines 270-276
VolumeSignal(features) ==
  IF features.volume_trend = "INCREASING" /\ features.trend = "BULLISH" THEN 1
  ELSE IF features.volume_trend = "INCREASING" /\ features.trend = "BEARISH" THEN 0 - 1
  ELSE 0

\* the values makePrediction holds when it decides: lines 242-296
Workings(features, timeframe) ==
  LET score0 == RsiSignal(features.rsi) + TrendSignal(features.trend) + VolumeSignal(features)
      signals == IF VolumeSignal(features) # 0 THEN 3 ELSE 2
      score1 == IF features.volatility = "HIGH" THEN FTimes(FromInt(score0), 8, 10)
                ELSE FromInt(score0)
      maxPossibleScore == signals * 2
      ratio == FTimes(FAbs(score1), 1, maxPossibleScore)
      confidence0 == FMin1(ratio)
  IN [signals |-> signals,
      maxPossibleScore |-> maxPossibleScore,
      scored |-> score1,
      ratio |-> ratio,
      confidence |-> IF timeframe = "today" THEN FTimes(confidence0, 8, 10) ELSE confidence0,
      score |-> IF timeframe = "today" THEN FTimes(score1, 9, 10) ELSE score1]

\* makePrediction from the features on: lines 242-309
Decide(features, timeframe) ==
  LET w == Workings(features, timeframe)
      above == IF timeframe = "today" THEN FGt(w.confidence, 5, 10) ELSE FGt(w.confidence, 6, 10)
  IN [prediction |-> IF FGt(w.score, 1, 1) /\ above THEN "BUY"
                     ELSE IF FLt(w.score, 0 - 1, 1) /\ above THEN "SELL"
                     ELSE "HOLD",
      confidence |-> RoundPercent(w.confidence)]

\* makePrediction(stockData, timeframe)
MakePrediction(stockData, timeframe) == Decide(AnalyzeStock(stockData), timeframe)

----------------------------------------------------------------------------
(* The scorer alone: every combination of features and timeframe.          *)

\* RSI values on both sides of every threshold of the scorer, and NaN
RsiValues ==
  {0, 20 * SCALE, 30 * SCALE - 100, 30 * SCALE, 30 * SCALE + 100, 50 * SCALE - 100,
   50 * SCALE, 70 * SCALE, 70 * SCALE + 100, 100 * SCALE, NaN}

FeatureValues ==
  [rsi : RsiValues, trend : {"BULLISH", "BEARISH"},
   volatility : {"LOW", "NORMAL", "HIGH"}, volume_trend : {"INCREASING", "DECREASING"}]

Timeframes == {"today", "tomorrow"}

InitScore ==
  /\ Start
  /\ now = StartTime
  /\ apiKeyEnv = [set |-> FALSE, value |-> <<>>]
  /\ watched = <<>>

\* the scoring of makePrediction runs on features
ScoreRun(features, timeframe) ==
  /\ out.fn = "none"
  /\ out' = [fn |-> "makePrediction", features |-> features, timeframe |-> timeframe,
             workings |-> Workings(features, timeframe),
             result |-> Decide(features, timeframe)]
  /\ UNCHANGED <<cache, now, apiKeyEnv, req, watched, hist, last>>

NextScore == \E features \in FeatureValues, timeframe \in Timeframes : ScoreRun(features, timeframe)

SpecScore == InitScore /\ [][NextScore]_vars

----------------------------------------------------------------------------
(* analyzeStock and makePrediction alone: series of every length up to      *)
(* MaxSeriesLen, in shapes that take every branch of the indicators.        *)

\* the longest series analysed: longer than the longest window (50)
MaxSeriesLen == 55

CloseShapes == {"flat", "rising", "falling", "zigzag", "climb", "sag", "spike", "drop"}
VolumeShapes == {"flat", "zero", "surge", "lull"}

\* the close of bar i of n
CloseOf(shape, i, n) ==
  CASE shape = "flat" -> 10 * SCALE
    [] shape = "rising" -> 10 * SCALE + i * (SCALE \div 10)
    [] shape = "falling" -> 20 * SCALE - i * (SCALE \div 10)
    [] shape = "zigzag" -> 10 * SCALE + (i % 2) * (SCALE \div 2)
    [] shape = "climb" -> 10 * SCALE + (i \div 2) * (SCALE \div 5) + (i % 2) * ((3 * SCALE) \div 10)
    [] shape = "sag" -> 30 * SCALE - (i \div 2) * (SCALE \div 5) - (i % 2) * ((3 * SCALE) \div 10)
    [] shape = "spike" -> IF i = n THEN 11 * SCALE ELSE 10 * SCALE
    [] shape = "drop" -> IF i = n THEN 9 * SCALE ELSE 10 * SCALE

\* the volume of bar i of n: surge has the last 5 days high; lull has them low
\* and the day before them lower still
VolumeOf(shape, i, n) ==
  CASE shape = "flat" -> 1500
    [] shape = "zero" -> 0
    [] shape = "surge" -> IF i > n - 5 THEN 3000 ELSE 1500
    [] shape = "lull" -> IF i > n - 5 THEN 150 ELSE IF i = n - 5 THEN 15 ELSE 1500

\* a series of n bars ending yesterday
SeriesOf(closeShape, volumeShape, n) ==
  [i \in 1..n |->
     [date |-> Today - (n + 1 - i),
      open |-> CloseOf(closeShape, i, n),
      high |-> CloseOf(closeShape, i, n),
      low |-> CloseOf(closeShape, i, n),
      close |-> CloseOf(closeShape, i, n),
      volume |-> VolumeOf(volumeShape, i, n)]]

InitAnalyze ==
  /\ Start
  /\ now = StartTime
  /\ apiKeyEnv = [set |-> FALSE, value |-> <<>>]
  /\ watched = <<>>

\* analyzeStock(stockData) and makePrediction(stockData, timeframe) run, as in
\* handlePredict
AnalyzeRun(stockData, timeframe) ==
  /\ out.fn = "none"
  /\ out' = [fn |-> "analyzeStock", data |-> stockData, timeframe |-> timeframe,
             features |-> AnalyzeStock(stockData),
             result |-> MakePrediction(stockData, timeframe)]
  /\ UNCHANGED <<cache, now, apiKeyEnv, req, watched, hist, last>>

NextAnalyze ==
  \E closeShape \in CloseShapes, volumeShape \in VolumeShapes :
    \E n \in 1..MaxSeriesLen, timeframe \in Timeframes :
      AnalyzeRun(SeriesOf(closeShape, volumeShape, n), timeframe)

SpecAnalyze == InitAnalyze /\ [][NextAnalyze]_vars

----------------------------------------------------------------------------
(* The indicators alone: every short array of prices, every short period.  *)

\* the longest array of prices and the longest period the indicators are run on
MaxPrices == 5
MaxPeriod == 3

PriceValues == {1 * SCALE, 2 * SCALE, 4 * SCALE}
\* the array of the documented example, sma([1, 2, 3, 4, 5], 3)
ExamplePrices == <<1 * SCALE, 2 * SCALE, 3 * SCALE, 4 * SCALE, 5 * SCALE>>
PriceArrays == UNION {[1..n -> PriceValues] : n \in 0..MaxPrices} \cup {ExamplePrices}

InitIndicators ==
  /\ Start
  /\ now = StartTime
  /\ apiKeyEnv = [set |-> FALSE, value |-> <<>>]
  /\ watched = <<>>

\* calculateRSI, calculateSMA and calculateBollingerBands run on prices and period
IndicatorsRun(prices, period) ==
  /\ out.fn = "none"
  /\ out' = [fn |-> "indicators", prices |-> prices, period |-> period,
             rsi |-> CalculateRSI(prices, period),
             sma |-> CalculateSMA(prices, period),
             bb |-> CalculateBollingerBands(prices, period)]
  /\ UNCHANGED <<cache, now, apiKeyEnv, req, watched, hist, last>>

NextIndicators ==
  \E prices \in PriceArrays, period \in 1..MaxPeriod : IndicatorsRun(prices, period)

SpecIndicators == InitIndicators /\ [][NextIndicators]_vars

----------------------------------------------------------------------------
(* handlePredict: one request at a time, from its body to its response.     *)

LOWER ==
  <<"a", "b", "c", "d", "e", "f", "g", "h", "i", "j", "k", "l", "m",
    "n", "o", "p", "q", "r", "s", "t", "u", "v", "w", "x", "y", "z">>
UPPER ==
  <<"A", "B", "C", "D", "E", "F", "G", "H", "I", "J", "K", "L", "M",
    "N", "O", "P", "Q", "R", "S", "T", "U", "V", "W", "X", "Y", "Z">>
UpperChar(c) ==
  IF \E i \in 1..Len(LOWER) : LOWER[i] = c
  THEN UPPER[CHOOSE i \in 1..Len(LOWER) : LOWER[i] = c]
  ELSE c
\* symbol.toUpperCase()
ToUpperCase(s) == [i \in 1..Len(s) |-> UpperChar(s[i])]

\* req.body.symbol: absent, a string, or a number
StringSymbol(value) == [kind |-> "string", value |-> value]
SymbolInputs ==
  {[kind |-> "undefined", value |-> <<>>],
   StringSymbol(<<>>),
   StringSymbol(AAPL),
   StringSymbol(<<"a", "a", "p", "l">>),
   StringSymbol(<<" ", "a", "a", "p", "l">>),
   [kind |-> "number", value |-> <<"7">>]}

\* req.body.timeframe: absent or a string
TimeframeInputs ==
  {[given |-> FALSE, value |-> "tomorrow"],
   [given |-> TRUE, value |-> "today"],
   [given |-> TRUE, value |-> "tomorrow"],
   [given |-> TRUE, value |-> "nextweek"]}

\* a check of the timeframe that lets every value through
AnyTimeframe(timeframe) == TRUE

\* !symbol
Falsy(symbol) == symbol.kind = "undefined" \/ (symbol.kind = "string" /\ symbol.value = <<>>)
\* ["today", "tomorrow"].includes(timeframe)
ValidTimeframe(timeframe) == timeframe \in {"today", "tomorrow"}

\* what is remembered of the request answered before the present one: nothing
NoBefore ==
  [has |-> FALSE, status |-> 0, stockSymbol |-> <<>>, timeframe |-> "", series |-> <<>>,
   features |-> <<>>]

\* what is remembered of the request o, whose call of fetchStockData ended in l
Before(o, l) ==
  IF o.fn = "handlePredict" /\ o.pc = "done"
  THEN [has |-> TRUE, status |-> o.status, stockSymbol |-> o.stockSymbol,
        timeframe |-> o.timeframe,
        series |-> IF o.status = 200 THEN l.data ELSE <<>>,
        features |-> IF o.status = 200 THEN o.response.features ELSE <<>>]
  ELSE NoBefore

\* the response of a request that ended with an error status
ErrorResponse(symbol, timeframe, stockSymbol, status) ==
  [fn |-> "handlePredict", pc |-> "done", symbol |-> symbol, timeframe |-> timeframe,
   stockSymbol |-> stockSymbol, status |-> status, response |-> <<>>, before |-> NoBefore]

\* the documents response.json() resolves to while handlePredict is served
PredictBodies == {ErrorBody, EmptySeriesBody, GarbageBody, NewestFirstBody}

\* the accuracy without its reduction for today
AccuracyOfTomorrow(timeframe, rnd) == Round2(75 * SCALE + MulF(15 * SCALE, rnd))

\* 75 + Math.random() * 15, times 0.85 for today, rounded to hundredths
Accuracy(timeframe, rnd) ==
  LET accuracy == 75 * SCALE + MulF(15 * SCALE, rnd)
  IN Round2(IF timeframe = "today" THEN MulF(accuracy, (85 * SCALE) \div 100) ELSE accuracy)

\* handlePredict is called with a body and runs to a response or to its call of
\* fetchStockData: lines 313-327; before is what is remembered of the request
\* answered before this one
PredictArrives(symbol, tf, before) ==
  /\ out.fn = "none" \/ (out.fn = "handlePredict" /\ out.pc = "done")
  /\ LET timeframe == tf.value
     IN IF Falsy(symbol) \/ ~ValidTimeframe(timeframe)
        THEN /\ out' = [ErrorResponse(symbol, timeframe, <<>>, 400) EXCEPT !.before = before]
             /\ last' = Event("rejected", <<>>, <<>>, FALSE, NoSeriesBody, <<>>)
        ELSE IF symbol.kind # "string"
        THEN \* symbol.toUpperCase is not a function: the catch block
             /\ out' = [ErrorResponse(symbol, timeframe, <<>>, 500) EXCEPT !.before = before]
             /\ last' = Event("rejected", <<>>, <<>>, FALSE, NoSeriesBody, <<>>)
        ELSE /\ out' = [fn |-> "handlePredict", pc |-> "call", symbol |-> symbol,
                        timeframe |-> timeframe, stockSymbol |-> ToUpperCase(symbol.value),
                        status |-> 0, response |-> <<>>, before |-> before]
             /\ last' = Event("request", ToUpperCase(symbol.value), <<>>, FALSE,
                              NoSeriesBody, <<>>)
  /\ UNCHANGED <<cache, now, apiKeyEnv, req, watched, hist>>

\* the same, with nothing remembered
PredictStart(symbol, tf) == PredictArrives(symbol, tf, NoBefore)

\* the call of fetchStockData has returned stockData, and handlePredict runs to
\* its response: lines 327-358
PredictRespond(rnd) ==
  /\ out.fn = "handlePredict"
  /\ out.pc = "call"
  /\ last.kind \in {"hit", "demo", "marker", "noTimeSeries", "live", "catch",
                    "fetchRejected", "jsonRejected", "error"}
  /\ LET stockData == last.data
     IN out' =
          IF last.kind = "error"
          THEN [ErrorResponse(out.symbol, out.timeframe, out.stockSymbol, 500)
                  EXCEPT !.before = out.before]
          ELSE IF Len(stockData) = 0
          THEN [ErrorResponse(out.symbol, out.timeframe, out.stockSymbol, 404)
                  EXCEPT !.before = out.before]
          ELSE [out EXCEPT
                  !.pc = "done",
                  !.status = 200,
                  !.response =
                    [symbol |-> out.stockSymbol,
                     prediction |-> MakePrediction(stockData, out.timeframe).prediction,
                     confidence |-> MakePrediction(stockData, out.timeframe).confidence,
                     accuracy |-> Accuracy(out.timeframe, rnd),
                     timeframe |-> out.timeframe,
                     features |-> AnalyzeStock(stockData)]]
  /\ UNCHANGED <<cache, now, apiKeyEnv, req, watched, hist, last>>

InitPredict ==
  /\ Start
  /\ now = StartTime
  /\ watched = <<>>

NextPredict ==
  \/ \E symbol \in SymbolInputs, tf \in TimeframeInputs : PredictStart(symbol, tf)
  \/ \E r \in ReqIds :
       out.fn = "handlePredict" /\ out.pc = "call" /\ last.kind = "request"
         /\ Call(r, out.stockSymbol)
  \/ \E r \in ReqIds : FetchRejects(r)
  \/ \E r \in ReqIds : JsonRejects(r)
  \/ \E r \in ReqIds, body \in PredictBodies : JsonResolves(r, body)
  \/ \E rnd \in RandomValues : PredictRespond(rnd)

SpecPredict == InitPredict /\ [][NextPredict]_vars

\* requests for one symbol, in either case and for either timeframe, each
\* remembering the one answered before it
RepeatSymbols == {StringSymbol(AAPL), StringSymbol(<<"a", "a", "p", "l">>)}
RepeatTimeframes == {tf \in TimeframeInputs : tf.given /\ ValidTimeframe(tf.value)}

NextRepeat ==
  \/ \E symbol \in RepeatSymbols, tf \in RepeatTimeframes :
       PredictArrives(symbol, tf, Before(out, last))
  \/ \E r \in ReqIds :
       out.fn = "handlePredict" /\ out.pc = "call" /\ last.kind = "request"
         /\ Call(r, out.stockSymbol)
  \/ \E r \in ReqIds : FetchRejects(r)
  \/ \E r \in ReqIds : JsonRejects(r)
  \/ \E r \in ReqIds, body \in PredictBodies : JsonResolves(r, body)
  \/ \E rnd \in RandomValues : PredictRespond(rnd)

SpecRepeat == InitPredict /\ [][NextRepeat]_vars

----------------------------------------------------------------------------
(* handlePredict from the return of fetchStockData on: series of every      *)
(* length up to MaxSeriesLen, generated or read from a live document.       *)

\* the values of a daily entry whose close is no number
UnreadableValues == [GoodValues EXCEPT !.close = <<"n", "/", "a">>]

\* lines 125-135 on a time series of n <= 100 entries
ParseWhole(ts) == Reverse([i \in 1..Len(ts) |-> ParseEntry(ts[i])])

\* the series fetchStockData resolves: the shapes of numbers, and the parse of
\* live documents of n entries
ResolvedSeries ==
  {SeriesOf(closeShape, volumeShape, n) :
     closeShape \in CloseShapes, volumeShape \in {"flat", "surge"}, n \in 1..MaxSeriesLen}
  \cup {ParseWhole(NewestFirst(n, values)) :
          values \in {GoodValues, UnreadableValues}, n \in 1..MaxSeriesLen}

InitRespond ==
  /\ Start
  /\ now = StartTime
  /\ apiKeyEnv = [set |-> TRUE, value |-> <<"K", "1">>]
  /\ watched = <<>>

\* handlePredict has taken a body { symbol: "AAPL", timeframe } and its call of
\* fetchStockData has returned stockData: lines 313-327
Resolves(stockData, timeframe) ==
  /\ out.fn = "none"
  /\ out' = [fn |-> "handlePredict", pc |-> "call", symbol |-> StringSymbol(AAPL),
             timeframe |-> timeframe, stockSymbol |-> ToUpperCase(AAPL),
             status |-> 0, response |-> <<>>, before |-> NoBefore]
  /\ last' = Event("live", ToUpperCase(AAPL), stockData, FALSE, NoSeriesBody, <<>>)
  /\ UNCHANGED <<cache, now, apiKeyEnv, req, watched, hist>>

NextRespond ==
  \/ \E stockData \in ResolvedSeries, timeframe \in Timeframes : Resolves(stockData, timeframe)
  \/ \E rnd \in RandomValues : PredictRespond(rnd)

SpecRespond == InitRespond /\ [][NextRespond]_vars

----------------------------------------------------------------------------
(* searchStocks (src/unnamed/part_001): the lookup behind the suggestions.  *)

\* the static reference list, in its order
POPULAR_STOCKS ==
  <<
    [symbol |-> <<"A", "A", "P", "L">>,
     name |-> <<"A", "p", "p", "l", "e", " ", "I", "n", "c", ".">>,
     market |-> "US"],
    [symbol |-> <<"M", "S", "F", "T">>,
     name |-> <<"M", "i", "c", "r", "o", "s", "o", "f", "t", " ", "C", "o", "r", "p", "o", "r", "a", "t", "i", "o", "n">>,
     market |-> "US"],
    [symbol |-> <<"G", "O", "O", "G", "L">>,
     name |-> <<"A", "l", "p", "h", "a", "b", "e", "t", " ", "I", "n", "c", ".">>,
     market |-> "US"],
    [symbol |-> <<"A", "M", "Z", "N">>,
     name |-> <<"A", "m", "a", "z", "o", "n", ".", "c", "o", "m", " ", "I", "n", "c", ".">>,
     market |-> "US"],
    [symbol |-> <<"T", "S", "L", "A">>,
     name |-> <<"T", "e", "s", "l", "a", " ", "I", "n", "c", ".">>,
     market |-> "US"],
    [symbol |-> <<"N", "V", "D", "A">>,
     name |-> <<"N", "V", "I", "D", "I", "A", " ", "C", "o", "r", "p", "o", "r", "a", "t", "i", "o", "n">>,
     market |-> "US"],
    [symbol |-> <<"M", "E", "T", "A">>,
     name |-> <<"M", "e", "t", "a", " ", "P", "l", "a", "t", "f", "o", "r", "m", "s", " ", "I", "n", "c", ".">>,
     market |-> "US"],
    [symbol |-> <<"N", "F", "L", "X">>,
     name |-> <<"N", "e", "t", "f", "l", "i", "x", " ", "I", "n", "c", ".">>,
     market |-> "US"],
    [symbol |-> <<"B", "A", "B", "A">>,
     name |-> <<"A", "l", "i", "b", "a", "b", "a", " ", "G", "r", "o", "u", "p">>,
     market |-> "US"],
    [symbol |-> <<"V">>,
     name |-> <<"V", "i", "s", "a", " ", "I", "n", "c", ".">>,
     market |-> "US"],
    [symbol |-> <<"R", "E", "L", "I", "A", "N", "C", "E">>,
     name |-> <<"R", "e", "l", "i", "a", "n", "c", "e", " ", "I", "n", "d", "u", "s", "t", "r", "i", "e", "s", " ", "L", "t", "d", ".">>,
     market |-> "IN"],
    [symbol |-> <<"T", "C", "S">>,
     name |-> <<"T", "a", "t", "a", " ", "C", "o", "n", "s", "u", "l", "t", "a", "n", "c", "y", " ", "S", "e", "r", "v", "i", "c", "e", "s">>,
     market |-> "IN"],
    [symbol |-> <<"H", "D", "F", "C", "B", "A", "N", "K">>,
     name |-> <<"H", "D", "F", "C", " ", "B", "a", "n", "k", " ", "L", "t", "d", ".">>,
     market |-> "IN"],
    [symbol |-> <<"I", "N", "F", "Y">>,
     name |-> <<"I", "n", "f", "o", "s", "y", "s", " ", "L", "t", "d", ".">>,
     market |-> "IN"],
    [symbol |-> <<"H", "I", "N", "D", "U", "N", "I", "L", "V", "R">>,
     name |-> <<"H", "i", "n", "d", "u", "s", "t", "a", "n", " ", "U", "n", "i", "l", "e", "v", "e", "r", " ", "L", "t", "d", ".">>,
     market |-> "IN"],
    [symbol |-> <<"I", "T", "C">>,
     name |-> <<"I", "T", "C", " ", "L", "t", "d", ".">>,
     market |-> "IN"],
    [symbol |-> <<"S", "B", "I", "N">>,
     name |-> <<"S", "t", "a", "t", "e", " ", "B", "a", "n", "k", " ", "o", "f", " ", "I", "n", "d", "i", "a">>,
     market |-> "IN"],
    [symbol |-> <<"B", "H", "A", "R", "T", "I", "A", "R", "T", "L">>,
     name |-> <<"B", "h", "a", "r", "t", "i", " ", "A", "i", "r", "t", "e", "l", " ", "L", "t", "d", ".">>,
     market |-> "IN"],
    [symbol |-> <<"K", "O", "T", "A", "K", "B", "A", "N", "K">>,
     name |-> <<"K", "o", "t", "a", "k", " ", "M", "a", "h", "i", "n", "d", "r", "a", " ", "B", "a", "n", "k">>,
     market |-> "IN"],
    [symbol |-> <<"L", "T">>,
     name |-> <<"L", "a", "r", "s", "e", "n", " ", "&", " ", "T", "o", "u", "b", "r", "o", " ", "L", "t", "d", ".">>,
     market |-> "IN"],
    [symbol |-> <<"A", "S", "I", "A", "N", "P", "A", "I", "N", "T">>,
     name |-> <<"A", "s", "i", "a", "n", " ", "P", "a", "i", "n", "t", "s", " ", "L", "t", "d", ".">>,
     market |-> "IN"],
    [symbol |-> <<"M", "A", "R", "U", "T", "I">>,
     name |-> <<"M", "a", "r", "u", "t", "i", " ", "S", "u", "z", "u", "k", "i", " ", "I", "n", "d", "i", "a">>,
     market |-> "IN"],
    [symbol |-> <<"A", "X", "I", "S", "B", "A", "N", "K">>,
     name |-> <<"A", "x", "i", "s", " ", "B", "a", "n", "k", " ", "L", "t", "d", ".">>,
     market |-> "IN"],
    [symbol |-> <<"H", "C", "L", "T", "E", "C", "H">>,
     name |-> <<"H", "C", "L", " ", "T", "e", "c", "h", "n", "o", "l", "o", "g", "i", "e", "s", " ", "L", "t", "d", ".">>,
     market |-> "IN"],
    [symbol |-> <<"U", "L", "T", "R", "A", "C", "E", "M", "C", "O">>,
     name |-> <<"U", "l", "t", "r", "a", "T", "e", "c", "h", " ", "C", "e", "m", "e", "n", "t", " ", "L", "t", "d", ".">>,
     market |-> "IN"],
    [symbol |-> <<"S", "U", "N", "P", "H", "A", "R", "M", "A">>,
     name |-> <<"S", "u", "n", " ", "P", "h", "a", "r", "m", "a", "c", "e", "u", "t", "i", "c", "a", "l">>,
     market |-> "IN"],
    [symbol |-> <<"T", "I", "T", "A", "N">>,
     name |-> <<"T", "i", "t", "a", "n", " ", "C", "o", "m", "p", "a", "n", "y", " ", "L", "t", "d", ".">>,
     market |-> "IN"],
    [symbol |-> <<"B", "A", "J", "F", "I", "N", "A", "N", "C", "E">>,
     name |-> <<"B", "a", "j", "a", "j", " ", "F", "i", "n", "a", "n", "c", "e", " ", "L", "t", "d", ".">>,
     market |-> "IN"],
    [symbol |-> <<"N", "E", "S", "T", "L", "E", "I", "N", "D">>,
     name |-> <<"N", "e", "s", "t", "l", "e", " ", "I", "n", "d", "i", "a", " ", "L", "t", "d", ".">>,
     market |-> "IN"],
    [symbol |-> <<"W", "I", "P", "R", "O">>,
     name |-> <<"W", "i", "p", "r", "o", " ", "L", "t", "d", ".">>,
     market |-> "IN"]
  >>

LowerChar(c) ==
  IF \E i \in 1..Len(UPPER) : UPPER[i] = c
  THEN LOWER[CHOOSE i \in 1..Len(UPPER) : UPPER[i] = c]
  ELSE c
\* s.toLowerCase()
ToLowerCase(s) == [i \in 1..Len(s) |-> LowerChar(s[i])]

\* !query.trim(): the query holds nothing but white space
Blank(query) == \A i \in 1..Len(query) : query[i] \in {" ", "\t", "\n"}

\* the filter callback
Matches(stock, searchTerm) ==
  \/ Includes(ToLowerCase(stock.symbol), searchTerm)
  \/ Includes(ToLowerCase(stock.name), searchTerm)

\* stocks.slice(0, n)
SliceFirst(stocks, n) == SubSeq(stocks, 1, Min(n, Len(stocks)))

\* searchStocks without its limit
SearchStocksUnlimited(query) ==
  IF Blank(query) THEN <<>>
  ELSE SelectSeq(POPULAR_STOCKS, LAMBDA stock : Matches(stock, ToLowerCase(query)))

\* searchStocks(query)
SearchStocks(query) ==
  IF Blank(query) THEN <<>>
  ELSE LET searchTerm == ToLowerCase(query)
       IN SliceFirst(SelectSeq(POPULAR_STOCKS, LAMBDA stock : Matches(stock, searchTerm)), 8)

\* the longest query typed
MaxQuery == 3
QueryChars == {"a", "A", "n", "K", " ", "."}
Queries == UNION {[1..n -> QueryChars] : n \in 0..MaxQuery}

InitSearch ==
  /\ Start
  /\ now = StartTime
  /\ apiKeyEnv = [set |-> FALSE, value |-> <<>>]
  /\ watched = <<>>

\* searchStocks(query) runs
SearchRun(query) ==
  /\ out.fn = "none"
  /\ out' = [fn |-> "searchStocks", query |-> query, result |-> SearchStocks(query)]
  /\ UNCHANGED <<cache, now, apiKeyEnv, req, watched, hist, last>>

NextSearch == \E query \in Queries : SearchRun(query)

SpecSearch == InitSearch /\ [][NextSearch]_vars

----------------------------------------------------------------------------
(* The page component (src/client/pages/Index.tsx): its state, the user's   *)
(* actions, and the requests to /api/predict it has in flight.  Request k   *)
(* is the k-th one issued; its result, when it succeeds, is called k.       *)

RECURSIVE TrimStart(_)
TrimStart(s) == IF s # <<>> /\ Head(s) = " " THEN TrimStart(Tail(s)) ELSE s
RECURSIVE TrimEnd(_)
TrimEnd(s) ==
  IF s # <<>> /\ s[Len(s)] = " " THEN TrimEnd(SubSeq(s, 1, Len(s) - 1)) ELSE s
\* s.trim()
Trim(s) == TrimEnd(TrimStart(s))

\* requests the page may issue
MaxIssued == 3

\* what the user may leave in the input
Typed == {<<>>, <<" ">>, <<"a", "a", "p", "l">>, <<"z", "z">>}

\* useState: the initial state of the page, nothing in flight
PageStart ==
  [fn |-> "page", symbol |-> <<>>, prediction |-> 0, loading |-> FALSE, error |-> "",
   showSuggestions |-> FALSE, issued |-> 0, flights |-> [k \in 1..MaxIssued |-> "none"]]

\* handlePredict up to its await of fetch: lines 64-94
PagePredict(page) ==
  LET trimmedSymbol == ToUpperCase(Trim(page.symbol))
  IN IF trimmedSymbol = <<>>
     THEN [page EXCEPT !.error = "Please enter a stock symbol"]
     ELSE [page EXCEPT !.loading = TRUE, !.error = "", !.showSuggestions = FALSE,
                       !.issued = page.issued + 1,
                       !.flights = [page.flights EXCEPT ![page.issued + 1] = "flying"]]

\* handleKeyPress for the Enter key: lines 120-123
PageEnter(page) == IF ~page.showSuggestions THEN PagePredict(page) ELSE page

\* the page's other variables stay as they are
PageOnly == UNCHANGED <<cache, now, apiKeyEnv, req, watched, hist, last>>

\* handleInputChange: lines 128-139
Types(value) ==
  /\ out.fn = "page"
  /\ out' = [out EXCEPT !.symbol = ToUpperCase(value),
                        !.showSuggestions =
                          ~Blank(ToUpperCase(value)) /\ SearchStocks(ToUpperCase(value)) # <<>>]
  /\ PageOnly

\* handleSuggestionClick on a suggestion shown: lines 141-145
PicksSuggestion ==
  /\ out.fn = "page"
  /\ out.showSuggestions
  /\ \E stock \in {SearchStocks(out.symbol)[i] : i \in 1..Len(SearchStocks(out.symbol))} :
       out' = [out EXCEPT !.symbol = stock.symbol, !.showSuggestions = FALSE]
  /\ PageOnly

\* the button, enabled unless loading || !symbol.trim(): lines 276-279
ClicksButton ==
  /\ out.fn = "page"
  /\ ~(out.loading \/ Trim(out.symbol) = <<>>)
  /\ out.issued < MaxIssued
  /\ out' = PagePredict(out)
  /\ PageOnly

\* the Enter key in the input: lines 120-123
PressesEnter ==
  /\ out.fn = "page"
  /\ out.issued < MaxIssued
  /\ out' = PageEnter(out)
  /\ PageOnly

\* the Escape key in the input: lines 123-125
PressesEscape ==
  /\ out.fn = "page"
  /\ out' = [out EXCEPT !.showSuggestions = FALSE]
  /\ PageOnly

\* request k is answered with a result: lines 96-104 and 115-117
Succeeds(k) ==
  /\ out.fn = "page"
  /\ out.flights[k] = "flying"
  /\ out' = [out EXCEPT !.prediction = k, !.loading = FALSE, !.flights[k] = "succeeded"]
  /\ PageOnly

\* request k is answered with an error status, is aborted after 30 seconds, or
\* fails in the network: lines 98-101 and 105-117
Fails(k, message) ==
  /\ out.fn = "page"
  /\ out.flights[k] = "flying"
  /\ out' = [out EXCEPT !.error = message, !.loading = FALSE, !.flights[k] = "failed"]
  /\ PageOnly

InitPage ==
  /\ cache = <<>>
  /\ apiKeyEnv = [set |-> FALSE, value |-> <<>>]
  /\ req = [r \in ReqIds |-> Idle]
  /\ hist = NoHist
  /\ last = Event("init", <<>>, <<>>, FALSE, NoSeriesBody, <<>>)
  /\ now = StartTime
  /\ watched = <<>>
  /\ out = PageStart

NextPage ==
  \/ \E value \in Typed : Types(value)
  \/ PicksSuggestion
  \/ ClicksButton
  \/ PressesEnter
  \/ PressesEscape
  \/ \E k \in 1..MaxIssued : Succeeds(k)
  \/ \E k \in 1..MaxIssued, message \in {"Stock data not found", "Request timed out. Please try again."} :
       Fails(k, message)

SpecPage == InitPage /\ [][NextPage]_vars

----------------------------------------------------------------------------
(* The cache and fetchStockData (checked under Spec, SpecWatch, SpecLive). *)

\* the events in which a call stored the series it returns
StoreKinds ==
  {"demo", "marker", "noTimeSeries", "live", "catch", "fetchRejected", "jsonRejected"}
\* the events in which a call returned a series
ReturnKinds == StoreKinds \cup {"hit"}
\* the events of the synchronous start of a call
CallKinds == {"hit", "demo", "fetch"}

\* the keys of c in insertion order
KeyOrder(c) == [i \in 1..Len(c) |-> c[i].key]

\* C1 as stated: two requests for the same symbol made within five minutes of
\* each other return identical series, whatever requests for other symbols do to
\* the cache in between.  hist holds the previous completed request for the
\* watched symbol; the step is the return of the next one.
C1_SameSeriesWithinFiveMinutes ==
  [][(/\ last'.kind \in ReturnKinds
      /\ last'.symbol = watched
      /\ hist.has
      /\ hist'.madeAt >= hist.madeAt
      /\ hist'.madeAt - hist.madeAt < 5 * MINUTE)
     => hist'.series = hist.series]_vars

\* C1, amended: a request for a symbol made while the cache holds an entry for
\* that symbol stored less than five minutes before returns, at once and without
\* a fetch or a draw, the series the previous completed request for the symbol
\* returned, and leaves the cache as it is, whatever requests for other symbols
\* have done in between.
C1_FreshEntryReturnsPreviousSeries ==
  [][(/\ last'.kind \in CallKinds
      /\ last'.symbol = watched
      /\ \E i \in 1..Len(cache) :
           /\ cache[i].key = CacheKey(watched)
           /\ now - cache[i].timestamp < 5 * MINUTE)
     => /\ last'.kind = "hit"
        /\ ~last'.drew
        /\ hist.has
        /\ last'.data = hist.series
        /\ hist'.series = hist.series
        /\ cache' = cache
        /\ req' = req]_vars

\* a request for the watched symbol is served from its entry while the cache also
\* holds another symbol's entry, stored after it
C1_Witness ==
  /\ last.kind = "hit"
  /\ last.symbol = watched
  /\ hist.has
  /\ last.data = hist.series
  /\ Len(cache) = MaxCache
  /\ cache[1].key = CacheKey(watched)
  /\ cache[MaxCache].key # CacheKey(watched)

\* C2: a lookup returns a cached series exactly when an entry for the key exists
\* and is less than five minutes old, and then returns that entry's series; when
\* the entry is missing or old the call resolves a series anew, and the store
\* leaves the key's entry holding that series with the time of the store.
C2_LookupAndRefresh ==
  [][LET key == CacheKey(last'.symbol)
     IN /\ last'.kind \in CallKinds =>
             (last'.kind = "hit" <=>
                \E i \in 1..Len(cache) :
                  cache[i].key = key /\ now - cache[i].timestamp < 5 * MINUTE)
        /\ last'.kind = "hit" =>
             /\ \E i \in 1..Len(cache) : cache[i].key = key /\ cache[i].data = last'.data
             /\ cache' = cache
        /\ last'.kind \in StoreKinds =>
             \E i \in 1..Len(cache') :
               /\ cache'[i].key = key
               /\ cache'[i].data = last'.data
               /\ cache'[i].timestamp = now']_vars

\* an entry exactly five minutes old has been replaced in place by a fresh
\* resolution: it is older in the insertion order and newer by timestamp than
\* the entry behind it (no key is configured, so only an expiry re-stores a key)
C2_Witness ==
  /\ ApiKey(apiKeyEnv) = DEMO
  /\ last.kind = "demo"
  /\ Len(cache) = 2
  /\ cache[1].key = CacheKey(last.symbol)
  /\ cache[1].data = last.data
  /\ cache[1].timestamp = now
  /\ now = StartTime + 5 * MINUTE
  /\ cache[2].timestamp < now

\* C3: the cache never holds more than 100 (here MaxCache) entries; a store
\* that would take it past the limit removes exactly one entry, and no other
\* step removes any.
C3_CacheBounded ==
  [][LET key == CacheKey(last'.symbol)
         gone == {k \in Keys(cache) : k \notin Keys(cache')}
     IN /\ Len(cache') <= MaxCache
        /\ Cardinality(Keys(cache')) = Len(cache')
        /\ Cardinality(gone) =
             IF /\ last'.kind \in StoreKinds
                /\ key \notin Keys(cache)
                /\ Len(cache) = MaxCache
             THEN 1 ELSE 0]_vars

\* a store into a full cache has removed one entry and left the cache full
C3_Witness ==
  /\ last.kind \in StoreKinds
  /\ Len(last.evicted) = 1
  /\ Len(cache) = MaxCache

\* C4: the entry an overflowing store removes is the one whose key was inserted
\* first among those present; a read, an expiry or a re-store of a present key
\* does not move a key in that order; and the entry just stored is never the one
\* removed.
C4_EvictsFirstInserted ==
  [][LET key == CacheKey(last'.symbol)
         keys == KeyOrder(cache)
     IN IF last'.kind \in StoreKinds /\ key \notin Keys(cache)
        THEN /\ KeyOrder(cache') =
                  IF Len(cache) = MaxCache THEN Append(Tail(keys), key)
                  ELSE Append(keys, key)
             /\ Len(cache) = MaxCache => Head(keys) # key
        ELSE KeyOrder(cache') = keys]_vars

\* the entry removed was the first inserted and yet fresher than one that stays:
\* it had been re-stored after its expiry
C4_Witness ==
  /\ Len(last.evicted) = 1
  /\ \E i \in 1..Len(cache) : cache[i].timestamp < last.evicted[1].timestamp
  /\ last.evicted[1].key # CacheKey(last.symbol)

\* C5: fetchStockData never returns an error to its caller: a rejected fetch, a
\* timeout, a body that is no JSON, an error message, a rate-limit note and a
\* malformed document all end in a returned series.
C5_NeverAnError ==
  /\ last.kind # "error"
  /\ last.kind \in {"fetchRejected", "jsonRejected", "catch", "marker", "noTimeSeries"}
       => last.kind \in ReturnKinds /\ Len(last.data) = NumBars

\* a malformed document made the try block throw, and the call returned a series
C5_Witness ==
  /\ last.kind = "catch"
  /\ BodyThrows(last.body)
  /\ Len(last.data) = NumBars

\* C6: whenever the live source yields an error, an empty payload (a daily time
\* series with zero entries included) or an error / rate-limit marker, the series
\* returned is a freshly generated one, not an empty or partly parsed live one.
C6_FailureYieldsSynthetic ==
  (\/ last.kind \in {"fetchRejected", "jsonRejected", "catch", "marker", "noTimeSeries"}
   \/ last.kind = "live" /\ last.body.timeSeries = <<>>)
  => last.drew /\ Len(last.data) = NumBars

\* C7: every call that misses the cache stores the series it resolved under the
\* symbol's key before it returns, on every path: when it returns, the cache
\* holds an entry for the key with exactly the returned series.
C7_MissStoresBeforeReturn ==
  last.kind \in StoreKinds =>
    \E i \in 1..Len(cache) :
      cache[i].key = CacheKey(last.symbol) /\ cache[i].data = last.data

\* the catch block has stored the series it returned, evicting another entry
C7_Witness ==
  /\ last.kind = "jsonRejected"
  /\ last.drew
  /\ Len(last.evicted) = 1
  /\ cache[Len(cache)].key = CacheKey(last.symbol)
  /\ cache[Len(cache)].data = last.data

\* C8: with no API credential configured (the variable unset or empty) no call
\* ever attempts a live fetch: no call is ever in flight, and every miss is
\* resolved by the generator alone.
C8_NoCredentialNoFetch ==
  (~apiKeyEnv.set \/ apiKeyEnv.value = <<>>) =>
    /\ \A r \in ReqIds : req[r].pc = "idle"
    /\ last.kind \in {"init", "tick", "hit", "demo"}
    /\ last.kind = "demo" => last.drew

\* with the variable unset a miss has been resolved by the generator
C8_Witness ==
  /\ ~apiKeyEnv.set
  /\ last.kind = "demo"
  /\ last.drew
  /\ Len(last.data) = NumBars

----------------------------------------------------------------------------
(* The generated series (checked under SpecGen).                           *)

\* a bar of positive prices, low and high around open and close, and a volume >= 0
WellFormedBar(b) ==
  /\ b.open > 0 /\ b.high > 0 /\ b.low > 0 /\ b.close > 0
  /\ b.low <= b.open /\ b.low <= b.close
  /\ b.open <= b.high /\ b.close <= b.high
  /\ b.volume \in Nat

\* data's dates are the Len(data) consecutive days that end on day today
ConsecutiveDaysEnding(data, today) ==
  \A k \in 1..Len(data) : data[k].date = today - (Len(data) - k)

\* C9: every series generateDemoData returns has exactly 100 (here NumBars) bars,
\* dated with the consecutive calendar days that end today, in increasing order,
\* and every bar has positive prices with low <= open, close <= high and a
\* non-negative integer volume.
C9_DemoSeries ==
  out.fn = "generateDemoData" =>
    /\ Len(out.data) = NumBars
    /\ ConsecutiveDaysEnding(out.data, IsoDate(now))
    /\ \A k \in 1..(Len(out.data) - 1) : out.data[k].date < out.data[k + 1].date
    /\ \A k \in 1..Len(out.data) : WellFormedBar(out.data[k])

\* C9, the part the clock cannot break: the count, the increasing dates and the
\* bars hold of every run; the dates are the consecutive days ending today
\* whenever all iterations read the clock within one UTC day.
C9_DemoSeriesWithinOneDay ==
  out.fn = "generateDemoData" =>
    /\ Len(out.data) = NumBars
    /\ \A k \in 1..(Len(out.data) - 1) : out.data[k].date < out.data[k + 1].date
    /\ \A k \in 1..Len(out.data) : WellFormedBar(out.data[k])
    /\ IsoDate(out.readings[1]) = IsoDate(out.readings[NumBars])
         => ConsecutiveDaysEnding(out.data, IsoDate(now))

----------------------------------------------------------------------------
(* The live series (checked under SpecLive).                               *)

\* C10: for a successful live fetch whose document lists the daily bars in any
\* key order, the series returned holds the (at most 100, here NumBars) most
\* recent bars of the document, oldest first with strictly increasing dates.
C10_MostRecentOldestFirst ==
  last.kind = "live" =>
    LET ts == last.body.timeSeries
        n == Min(NumBars, Len(ts))
        dates == {ts[i].date : i \in 1..Len(ts)}
        recent == {d \in dates : Cardinality({e \in dates : e > d}) < n}
    IN /\ Len(last.data) = n
       /\ {last.data[k].date : k \in 1..Len(last.data)} = recent
       /\ \A k \in 1..(Len(last.data) - 1) : last.data[k].date < last.data[k + 1].date

\* C10, for the order the provider sends: when the document lists its bars newest
\* first, the series returned is the most recent bars, oldest first.
C10_NewestFirstDocument ==
  (/\ last.kind = "live"
   /\ \A i \in 1..(Len(last.body.timeSeries) - 1) :
        last.body.timeSeries[i].date > last.body.timeSeries[i + 1].date)
  => LET ts == last.body.timeSeries
         n == Min(NumBars, Len(ts))
     IN /\ Len(last.data) = n
        /\ \A k \in 1..n : last.data[k].date = ts[n + 1 - k].date

----------------------------------------------------------------------------
(* Fetches, overlap and other symbols (SpecLive, SpecLiveFair, Spec).      *)

\* the events in which a call fell back to the generator after its fetch
FallbackKinds == {"fetchRejected", "jsonRejected", "catch", "marker", "noTimeSeries"}

\* C11: each call issues at most one live fetch: a fetch is issued only by a call
\* that starts, and a call whose fetch is pending either stays pending or
\* returns; when the fetch fails it returns a generated series at once, without
\* a second fetch.
C11_AtMostOneFetch ==
  [][/\ last'.kind = "fetch" =>
          \E r \in ReqIds : req[r].pc = "idle" /\ req'[r].pc = "await"
     /\ \A r \in ReqIds :
          req[r].pc = "await" =>
            \/ req'[r] = req[r]
            \/ /\ req'[r].pc = "idle"
               /\ last'.kind \in ReturnKinds
               /\ last'.kind \in FallbackKinds => last'.drew /\ Len(last'.data) = NumBars]_vars

\* a fetch has failed and the call has returned a generated series, no call pending
C11_Witness ==
  /\ last.kind = "fetchRejected"
  /\ last.drew
  /\ Len(last.data) = NumBars
  /\ \A r \in ReqIds : req[r].pc = "idle"

\* C12: every call eventually returns: a call suspended on its fetch is in the
\* end resumed (the fetch responds, fails or is cut off by the timeout) and
\* completes.
C12_EveryCallReturns ==
  \A r \in ReqIds : (req[r].pc = "await") ~> (req[r].pc = "idle")

\* a call that was suspended on its fetch has returned after time has passed
C12_Witness ==
  /\ last.kind \in {"jsonRejected", "fetchRejected"}
  /\ now > StartTime
  /\ \A r \in ReqIds : req[r].pc = "idle"

\* C13: when calls for the same uncached symbol overlap, each issues its own
\* fetch, each returns a whole series (the parse of the document it read, or a
\* generated one), and every store leaves the key with exactly one entry: the
\* series and the time of that store; no other step touches the cache.
C13_OverlappingCallsStoreWhole ==
  [][LET key == CacheKey(last'.symbol)
     IN /\ (/\ last'.kind \in CallKinds
            /\ ~\E i \in 1..Len(cache) :
                  cache[i].key = key /\ now - cache[i].timestamp < 5 * MINUTE)
           => /\ last'.kind = "fetch"
              /\ \E r \in ReqIds :
                   /\ req[r].pc = "idle"
                   /\ req'[r].pc = "await"
                   /\ req'[r].symbol = last'.symbol
                   /\ \A q \in ReqIds \ {r} : req'[q] = req[q]
        /\ last'.kind \in StoreKinds =>
             /\ Cardinality({i \in 1..Len(cache') : cache'[i].key = key}) = 1
             /\ \A i \in 1..Len(cache') :
                  cache'[i].key = key =>
                    cache'[i] = [key |-> key, data |-> last'.data, timestamp |-> now']
             /\ last'.data = IF last'.kind = "live"
                             THEN ParseTimeSeries(last'.body.timeSeries)
                             ELSE last'.data
             /\ last'.kind # "live" => last'.drew /\ Len(last'.data) = NumBars
        /\ last'.kind \notin StoreKinds => cache' = cache]_vars

\* one of two overlapping calls for a symbol has stored and returned its series
\* while the other is still suspended on its own fetch
C13_Witness ==
  /\ last.kind \in StoreKinds
  /\ \E r \in ReqIds : req[r].pc = "await" /\ req[r].symbol = last.symbol
  /\ Len(cache) = 1
  /\ cache[1] = [key |-> CacheKey(last.symbol), data |-> last.data, timestamp |-> now]

\* C14 as stated: a request for one symbol, however it is served, never changes
\* the cached series of a different symbol: every entry of another key is still
\* there after the step, with its series and its timestamp.
C14_OtherSymbolsUntouched ==
  [][\A i \in 1..Len(cache) :
       cache[i].key # CacheKey(last'.symbol) =>
         \E j \in 1..Len(cache') : cache'[j] = cache[i]]_vars

\* C14, amended: a request for one symbol never alters the series or the
\* timestamp of another symbol's entry, and a hit returns the entry's series as
\* stored; the one thing it can do to another symbol is remove its entry whole,
\* when it stores a new key into a full cache and that entry is the first
\* inserted.
C14_OtherSymbolsKeptOrEvicted ==
  [][LET key == CacheKey(last'.symbol)
     IN /\ \A i \in 1..Len(cache) :
             cache[i].key # key =>
               \/ \E j \in 1..Len(cache') : cache'[j] = cache[i]
               \/ /\ i = 1
                  /\ last'.kind \in StoreKinds
                  /\ Len(cache) = MaxCache
                  /\ \A j \in 1..Len(cache) : cache[j].key # key
                  /\ \A j \in 1..Len(cache') : cache'[j].key # cache[i].key
        /\ last'.kind = "hit" =>
             \E i \in 1..Len(cache) :
               /\ cache[i].key = key
               /\ cache[i].data = last'.data
               /\ cache'[i] = cache[i]]_vars

\* a call whose fetch failed has stored its generated series behind the older
\* entry of another symbol, which is still there
C14_Witness ==
  /\ last.kind \in FallbackKinds
  /\ Len(cache) = 2
  /\ cache[1].key # CacheKey(last.symbol)
  /\ cache[1].timestamp < now
  /\ cache[2] = [key |-> CacheKey(last.symbol), data |-> last.data, timestamp |-> now]

----------------------------------------------------------------------------
(* The scorer (checked under SpecScore).                                   *)

\* the procedure of the scorer in exact arithmetic, in units of 1 / UNIT
ProcedureScore(f) ==
  LET rsi == IF ~IsNaN(f.rsi) /\ f.rsi < 30 * SCALE THEN 2
             ELSE IF ~IsNaN(f.rsi) /\ f.rsi > 70 * SCALE THEN 0 - 2
             ELSE IF ~IsNaN(f.rsi) /\ 30 * SCALE <= f.rsi /\ f.rsi < 50 * SCALE THEN 1
             ELSE 0 - 1
      trend == IF f.trend = "BULLISH" THEN 1 ELSE 0 - 1
      volume == IF f.volume_trend = "INCREASING" THEN trend ELSE 0
      raw == (rsi + trend + volume) * UNIT
  IN IF f.volatility = "HIGH" THEN (raw * 8) \div 10 ELSE raw
ProcedureSignals(f) == IF f.volume_trend = "INCREASING" THEN 3 ELSE 2
ProcedureResult(f, timeframe) ==
  LET score1 == ProcedureScore(f)
      confidence0 == Min(Abs(score1) \div (2 * ProcedureSignals(f)), UNIT)
      confidence == IF timeframe = "today" THEN (confidence0 * 8) \div 10 ELSE confidence0
      score == IF timeframe = "today" THEN (score1 * 9) \div 10 ELSE score1
      threshold == IF timeframe = "today" THEN UNIT \div 2 ELSE (UNIT * 6) \div 10
  IN [prediction |-> IF score > UNIT /\ confidence > threshold THEN "BUY"
                     ELSE IF score < 0 - UNIT /\ confidence > threshold THEN "SELL"
                     ELSE "HOLD",
      confidence |-> (confidence * 200 + UNIT) \div (2 * UNIT)]

\* C18: for every combination of features and timeframe the prediction and the
\* confidence makePrediction returns are those of the stated procedure: the RSI,
\* trend and volume contributions, the factor 0.8 for HIGH volatility,
\* confidence = min(|score| / (2 * signals), 1), the factors 0.8 and 0.9 for
\* today, BUY / SELL only when |score| > 1 and confidence > threshold (0.5 today,
\* 0.6 tomorrow), and the confidence returned as round(confidence * 100).
C18_ScoreIsTheProcedure ==
  out.fn = "makePrediction" =>
    out.result = ProcedureResult(out.features, out.timeframe)

\* C18, the part that holds: the confidence returned is always that of the
\* procedure, and the prediction is too whenever the procedure's confidence is
\* not exactly the threshold.
C18_ScoreAwayFromThreshold ==
  out.fn = "makePrediction" =>
    LET f == out.features
        confidence0 == Min(Abs(ProcedureScore(f)) \div (2 * ProcedureSignals(f)), UNIT)
        confidence == IF out.timeframe = "today" THEN (confidence0 * 8) \div 10 ELSE confidence0
        threshold == IF out.timeframe = "today" THEN UNIT \div 2 ELSE (UNIT * 6) \div 10
    IN /\ out.result.confidence = ProcedureResult(f, out.timeframe).confidence
       /\ confidence # threshold => out.result = ProcedureResult(f, out.timeframe)

\* C26: for both timeframes and every volatility and volume trend,
\* makePrediction returns BUY only if rsi < 30 and the trend is BULLISH, and
\* SELL only if rsi > 70 and the trend is BEARISH; every other combination of
\* features yields HOLD.
C26_DecisionNeedsRsiAndTrend ==
  out.fn = "makePrediction" =>
    /\ out.result.prediction = "BUY"
         => (~IsNaN(out.features.rsi) /\ out.features.rsi < 30 * SCALE
             /\ out.features.trend = "BULLISH")
    /\ out.result.prediction = "SELL"
         => (~IsNaN(out.features.rsi) /\ out.features.rsi > 70 * SCALE
             /\ out.features.trend = "BEARISH")
    /\ out.result.prediction \in {"BUY", "SELL", "HOLD"}

\* a SELL for today, on an overbought RSI, a BEARISH trend and rising volume
C26_Witness ==
  /\ out.fn = "makePrediction"
  /\ out.timeframe = "today"
  /\ out.features.rsi = 100 * SCALE
  /\ out.features.trend = "BEARISH"
  /\ out.features.volume_trend = "INCREASING"
  /\ out.result.prediction = "SELL"

\* C27: the signals counter is always 2 or 3, so the division of the
\* confidence is never by zero; |score| never exceeds 2 * signals, so
\* min(..., 1) never binds; the confidence returned is at most 75 for
\* "tomorrow" and at most 60 for "today".
C27_ConfidenceNeverCapped ==
  out.fn = "makePrediction" =>
    /\ out.workings.signals \in {2, 3}
    /\ out.workings.maxPossibleScore = 2 * out.workings.signals
    /\ Abs(out.workings.scored.v) <= 2 * out.workings.signals * UNIT
    /\ ~FGt(out.workings.ratio, 1, 1)
    /\ out.timeframe = "tomorrow" => out.result.confidence <= 75
    /\ out.timeframe = "today" => out.result.confidence <= 60

\* the largest confidence of a "today" forecast, reached with 2 signals
C27_Witness ==
  /\ out.fn = "makePrediction"
  /\ out.timeframe = "today"
  /\ out.workings.signals = 2
  /\ Abs(out.workings.scored.v) = 3 * UNIT
  /\ out.result.confidence = 60

\* C28: for every combination of features, the confidence returned for
\* "today" is at most that returned for "tomorrow", and a BUY or SELL for
\* "today" is the same decision for "tomorrow".
C28_TodayNoMoreAssertive ==
  (out.fn = "makePrediction" /\ out.timeframe = "today") =>
    /\ out.result.confidence <= Decide(out.features, "tomorrow").confidence
    /\ out.result.prediction \in {"BUY", "SELL"}
         => Decide(out.features, "tomorrow").prediction = out.result.prediction

\* a BUY for today that is a BUY for tomorrow at a higher confidence
C28_Witness ==
  /\ out.fn = "makePrediction"
  /\ out.timeframe = "today"
  /\ out.result.prediction = "BUY"
  /\ Decide(out.features, "tomorrow").prediction = "BUY"
  /\ out.result.confidence < Decide(out.features, "tomorrow").confidence

----------------------------------------------------------------------------
(* The features (checked under SpecAnalyze).                               *)

ClosesOf(data) == [i \in 1..Len(data) |-> data[i].close]
VolumesOf(data) == [i \in 1..Len(data) |-> data[i].volume]

\* the last 5 values, and the up to 15 values just before them
LastFive(values) == SubSeq(values, Max(Len(values) - 5, 0) + 1, Len(values))
FifteenBefore(values) == SubSeq(values, Max(Len(values) - 20, 0) + 1, Max(Len(values) - 5, 0))

\* the average of a is greater than the average of b
AverageGreater(a, b) == SumN(a) * Len(b) > SumN(b) * Len(a)

\* sma as specified: the mean of the last period values, or the last value of
\* a shorter array
SmaOf(values, period) ==
  IF Len(values) < period THEN values[Len(values)]
  ELSE SumN(SubSeq(values, Len(values) - period + 1, Len(values))) \div period

\* trend and volatility as analyzeStock is to report them
TrendAndVolatilityAsStated(data, features) ==
  LET closes == ClosesOf(data)
      bb == CalculateBollingerBands(closes, 20)
  IN /\ features.trend = IF SmaOf(closes, 10) > SmaOf(closes, 50) THEN "BULLISH" ELSE "BEARISH"
     /\ features.volatility = IF closes[Len(closes)] > bb.upper THEN "HIGH"
                              ELSE IF closes[Len(closes)] < bb.lower THEN "LOW"
                              ELSE "NORMAL"

\* C19 as stated: for every series of at least one bar, volume_trend is
\* INCREASING exactly when the average of the last 5 volumes is greater than the
\* average of the volumes (up to 15) just before those 5, and DECREASING
\* otherwise (nothing is asked when no volume precedes the last 5); trend is
\* BULLISH exactly when sma(closes, 10) > sma(closes, 50); volatility is HIGH
\* above the upper band, LOW below the lower one, NORMAL otherwise.
C19_FeaturesAsStated ==
  out.fn = "analyzeStock" =>
    LET volumes == VolumesOf(out.data)
    IN /\ out.features.volume_trend \in {"INCREASING", "DECREASING"}
       /\ FifteenBefore(volumes) # <<>> =>
            (out.features.volume_trend = "INCREASING"
               <=> AverageGreater(LastFive(volumes), FifteenBefore(volumes)))
       /\ TrendAndVolatilityAsStated(out.data, out.features)

\* C19, amended: for a series of at least 20 bars volume_trend is INCREASING
\* exactly when the average of the last 5 volumes is greater than the average of
\* the 15 before them; for 6 to 19 bars exactly when the average of the last 5
\* is greater than the single volume just before them; for 5 bars or fewer it is
\* DECREASING.  Trend and volatility are as stated.
C19_FeaturesWithShortSeries ==
  out.fn = "analyzeStock" =>
    LET volumes == VolumesOf(out.data)
        n == Len(volumes)
    IN /\ out.features.volume_trend =
            IF n >= 20
            THEN (IF AverageGreater(LastFive(volumes), FifteenBefore(volumes))
                  THEN "INCREASING" ELSE "DECREASING")
            ELSE IF n >= 6
            THEN (IF SumN(LastFive(volumes)) > 5 * volumes[n - 5]
                  THEN "INCREASING" ELSE "DECREASING")
            ELSE "DECREASING"
       /\ TrendAndVolatilityAsStated(out.data, out.features)

\* a series of 10 bars whose last 5 volumes average less than the 5 before them
\* and more than the one just before them is reported INCREASING
C19_Witness ==
  /\ out.fn = "analyzeStock"
  /\ Len(out.data) = 10
  /\ AverageGreater(FifteenBefore(VolumesOf(out.data)), LastFive(VolumesOf(out.data)))
  /\ out.features.volume_trend = "INCREASING"

\* C20: for every series of at least one bar, however short or degenerate,
\* analyzeStock and makePrediction return an rsi in [0, 100], a trend, a
\* volatility, a volume trend and a prediction of their enumerations, and a
\* confidence in 0..100.
C20_TotalOnShortAndDegenerate ==
  out.fn = "analyzeStock" =>
    /\ ~IsNaN(out.features.rsi)
    /\ 0 <= out.features.rsi /\ out.features.rsi <= 100 * SCALE
    /\ out.features.trend \in {"BULLISH", "BEARISH"}
    /\ out.features.volatility \in {"LOW", "NORMAL", "HIGH"}
    /\ out.features.volume_trend \in {"INCREASING", "DECREASING"}
    /\ out.result.prediction \in {"BUY", "SELL", "HOLD"}
    /\ out.result.confidence \in 0..100

\* a series of 20 equal closes and zero volumes has been analysed
C20_Witness ==
  /\ out.fn = "analyzeStock"
  /\ Len(out.data) = 20
  /\ \A i \in 1..20 : out.data[i].close = out.data[1].close /\ out.data[i].volume = 0
  /\ out.features.rsi = 100 * SCALE
  /\ out.features.volume_trend = "DECREASING"
  /\ out.result.prediction = "SELL"

----------------------------------------------------------------------------
(* handlePredict (checked under SpecPredict).                               *)

\* a request has arrived: handlePredict has taken its first step
Arrives ==
  /\ out.fn = "none" \/ out.pc = "done"
  /\ out'.fn = "handlePredict"
  /\ <<out, last>>' # <<out, last>>

\* C15: a request whose symbol is missing or empty, or whose timeframe is
\* neither "today" nor "tomorrow", is answered with status 400 in the step
\* it arrives in; that step calls fetchStockData for no series and leaves
\* the cache as it was.
C15_RejectsWithoutResolving ==
  [][(/\ Arrives
      /\ \/ out'.symbol.kind = "undefined"
         \/ out'.symbol.value = <<>>
         \/ out'.timeframe \notin {"today", "tomorrow"})
       => /\ out'.pc = "done"
          /\ out'.status = 400
          /\ cache' = cache
          /\ req' = req
          /\ hist' = hist]_vars

\* a request for a cached symbol was rejected for its timeframe
C15_Witness ==
  /\ out.fn = "handlePredict"
  /\ out.pc = "done"
  /\ out.status = 400
  /\ out.symbol = StringSymbol(AAPL)
  /\ out.timeframe = "nextweek"
  /\ Has(cache, CacheKey(AAPL))

\* C16: a request answered with a prediction reports its symbol upper-cased
\* and trimmed, and its series was resolved under the cache key of that
\* upper-cased and trimmed symbol.
C16_SymbolUppercasedAndTrimmed ==
  (out.fn = "handlePredict" /\ out.pc = "done" /\ out.status = 200)
    => /\ out.response.symbol = Trim(ToUpperCase(out.symbol.value))
       /\ CacheKey(last.symbol) = CacheKey(Trim(ToUpperCase(out.symbol.value)))

\* C17: every finished request with a non-empty symbol and a recognised
\* timeframe was answered with a prediction, whatever the live source did.
C17_ValidRequestGetsPrediction ==
  (/\ out.fn = "handlePredict"
   /\ out.pc = "done"
   /\ out.symbol.kind = "string"
   /\ out.symbol.value # <<>>
   /\ out.timeframe \in {"today", "tomorrow"})
    => /\ out.status = 200
       /\ out.response.prediction \in {"BUY", "SELL", "HOLD"}

----------------------------------------------------------------------------
(* The indicators (checked under SpecIndicators).                           *)

\* the differences between consecutive prices among the last period + 1 prices
LastDifferences(prices, period) ==
  [i \in 1..period |-> prices[Len(prices) - period + i] - prices[Len(prices) - period + i - 1]]

\* the sum of the gains (sign = 1) or of the losses (sign = -1) among diffs
RECURSIVE MovesOf(_, _)
MovesOf(diffs, sign) ==
  IF diffs = <<>> THEN 0
  ELSE (IF Head(diffs) * sign > 0 THEN Head(diffs) * sign ELSE 0) + MovesOf(Tail(diffs), sign)

\* C21: calculateRSI(closes, period) is 50 for fewer than period + 1 closes;
\* otherwise it is a function of the last period differences alone: 100 when
\* none of them is a loss, and else 100 - 100 / (1 + avgGain / avgLoss), a
\* value from 0 up to but not including 100.
C21_RsiOfLastDifferences ==
  out.fn = "indicators" =>
    IF Len(out.prices) < out.period + 1 THEN out.rsi = 50 * SCALE
    ELSE LET diffs == LastDifferences(out.prices, out.period)
             avgGain == MovesOf(diffs, 1) \div out.period
             avgLoss == MovesOf(diffs, 0 - 1) \div out.period
         IN IF \A i \in 1..out.period : diffs[i] >= 0 THEN out.rsi = 100 * SCALE
            ELSE /\ out.rsi = 100 * SCALE - HundredOver(SCALE + DivF(avgGain, avgLoss))
                 /\ out.rsi >= 0
                 /\ out.rsi < 100 * SCALE

\* gains and losses among the last differences, and an earlier difference that
\* is the array's largest
C21_Witness ==
  /\ out.fn = "indicators"
  /\ out.period = 3
  /\ out.prices = <<4 * SCALE, 1 * SCALE, 2 * SCALE, 4 * SCALE, 2 * SCALE>>
  /\ out.rsi > 59 * SCALE
  /\ out.rsi < 61 * SCALE

\* C22: calculateSMA(values, period) is the last element of values when values
\* has fewer than period elements, and the arithmetic mean of the trailing
\* period elements otherwise; sma([1, 2, 3, 4, 5], 3) is 4.
C22_SmaLastOrMean ==
  out.fn = "indicators" =>
    /\ (out.prices # <<>> /\ Len(out.prices) < out.period)
         => out.sma = out.prices[Len(out.prices)]
    /\ Len(out.prices) >= out.period
         => out.sma =
              MovesOf(SubSeq(out.prices, Len(out.prices) - out.period + 1, Len(out.prices)), 1)
                \div out.period
    /\ (out.prices = ExamplePrices /\ out.period = 3) => out.sma = 4 * SCALE

\* sma([1, 2, 3, 4, 5], 3) has run
C22_Witness ==
  /\ out.fn = "indicators"
  /\ out.prices = ExamplePrices
  /\ out.period = 3
  /\ out.sma = 4 * SCALE

\* the population standard deviation of values: the square root of the mean
\* squared deviation from their own mean
PopulationDeviation(values) ==
  LET mean == MovesOf(values, 1) \div Len(values)
  IN SqrtN(SumN([i \in 1..Len(values) |-> Pow2N(values[i] - mean)]) \div Len(values))

\* C23: for every non-empty array of closes, one shorter than period included,
\* the bands are middle = sma(closes, period) and upper / lower = middle plus /
\* minus twice the population standard deviation of the last period closes,
\* so that upper >= middle >= lower.
C23_BandsOfPopulationDeviation ==
  (out.fn = "indicators" /\ out.prices # <<>>) =>
    LET stddev == PopulationDeviation(SliceLast(out.prices, out.period))
    IN /\ out.bb.middle = out.sma
       /\ out.bb.upper = out.bb.middle + 2 * stddev
       /\ out.bb.lower = out.bb.middle - 2 * stddev
       /\ out.bb.upper >= out.bb.middle
       /\ out.bb.middle >= out.bb.lower

\* the same for arrays of at least period closes
C23_BandsOfFullWindow ==
  (out.fn = "indicators" /\ Len(out.prices) >= out.period) =>
    LET stddev == PopulationDeviation(SliceLast(out.prices, out.period))
    IN /\ out.bb.middle = out.sma
       /\ out.bb.upper = out.bb.middle + 2 * stddev
       /\ out.bb.lower = out.bb.middle - 2 * stddev
       /\ out.bb.upper >= out.bb.middle
       /\ out.bb.middle >= out.bb.lower

----------------------------------------------------------------------------
(* The response of handlePredict (checked under SpecRespond).               *)

\* the ranges of a PredictionResult
ResultInRanges(asked, response) ==
  /\ response.confidence \in 0..100
  /\ ~IsNaN(response.features.rsi)
  /\ response.features.rsi >= 0
  /\ response.features.rsi <= 100 * SCALE
  /\ response.prediction \in {"BUY", "SELL", "HOLD"}
  /\ response.timeframe = asked
  /\ asked = "tomorrow" => (response.accuracy >= 75 * SCALE /\ response.accuracy <= 90 * SCALE)
  /\ asked = "today" =>
       (response.accuracy >= (6375 * SCALE) \div 100 /\ response.accuracy <= (7650 * SCALE) \div 100)

\* C24: every PredictionResult handlePredict returns has an integer
\* confidence in [0, 100], features.rsi in [0, 100], a prediction among BUY,
\* SELL and HOLD, the requested timeframe, and an accuracy in [75, 90] for
\* "tomorrow" and in [63.75, 76.5] for "today".
C24_ResultInRanges ==
  (out.fn = "handlePredict" /\ out.pc = "done" /\ out.status = 200)
    => ResultInRanges(out.timeframe, out.response)

\* the same for the series whose closes are all numbers
C24_ResultInRangesOfNumbers ==
  (/\ out.fn = "handlePredict"
   /\ out.pc = "done"
   /\ out.status = 200
   /\ \A i \in 1..Len(last.data) : ~IsNaN(last.data[i].close))
    => ResultInRanges(out.timeframe, out.response)

\* a "today" request was answered with a decision, an RSI off its defaults and
\* the largest accuracy
C24_Witness ==
  /\ out.fn = "handlePredict"
  /\ out.pc = "done"
  /\ out.status = 200
  /\ out.timeframe = "today"
  /\ out.response.prediction = "SELL"
  /\ out.response.features.rsi > 70 * SCALE
  /\ out.response.features.rsi < 100 * SCALE
  /\ out.response.confidence > 0
  /\ out.response.accuracy = (7650 * SCALE) \div 100

----------------------------------------------------------------------------
(* searchStocks (checked under SpecSearch).                                 *)

\* the letters of a and b are the same but for their case
SameLetter(a, b) ==
  \/ a = b
  \/ \E i \in 1..Len(LOWER) : {a, b} = {LOWER[i], UPPER[i]}

\* text holds query as a substring, whatever the case of the letters
ContainsAnyCase(text, query) ==
  \E off \in 0..(Len(text) - Len(query)) :
    \A k \in 1..Len(query) : SameLetter(text[off + k], query[k])

\* the positions of the reference list whose symbol or name holds query
Found(query) ==
  {i \in 1..Len(POPULAR_STOCKS) :
     \/ ContainsAnyCase(POPULAR_STOCKS[i].symbol, query)
     \/ ContainsAnyCase(POPULAR_STOCKS[i].name, query)}

\* C25: searchStocks(query) is empty for an empty or white-space-only query;
\* otherwise it is, in the order of the reference list, the first at most 8
\* entries whose symbol or name holds the query as a substring whatever the
\* case, and nothing else.
C25_FirstEightMatches ==
  out.fn = "searchStocks" =>
    IF \A i \in 1..Len(out.query) : out.query[i] = " " THEN out.result = <<>>
    ELSE /\ Len(out.result) = Min(8, Cardinality(Found(out.query)))
         /\ \A j \in 1..Len(out.result) :
              \E i \in Found(out.query) :
                /\ Cardinality({m \in Found(out.query) : m < i}) = j - 1
                /\ out.result[j] = POPULAR_STOCKS[i]

\* a query in mixed case that more than 8 entries hold returned 8 of them
C25_Witness ==
  /\ out.fn = "searchStocks"
  /\ out.query = <<"A", "n">>
  /\ Cardinality(Found(out.query)) > 8
  /\ Len(out.result) = 8

----------------------------------------------------------------------------
(* Repeated requests (checked under SpecRepeat).                            *)

\* C29: the cache key is made of the upper-cased symbol alone, not of the
\* timeframe: a request answered with a prediction right after a request for
\* the same symbol and the other timeframe was, within the five minutes of
\* the entry, is served from the cache, scored on the series the earlier
\* request was scored on, and reports the same features.
C29_TimeframesShareSeries ==
  (/\ out.fn = "handlePredict"
   /\ out.pc = "done"
   /\ out.status = 200
   /\ out.before.has
   /\ out.before.status = 200
   /\ out.before.stockSymbol = out.stockSymbol
   /\ out.before.timeframe # out.timeframe)
    => /\ last.kind = "hit"
       /\ last.data = out.before.series
       /\ out.response.features = out.before.features
       /\ out.response.features = AnalyzeStock(out.before.series)
       /\ \A i \in 1..Len(cache) :
            cache[i].key = CacheKey(out.stockSymbol) => cache[i].data = out.before.series

\* "aapl" for tomorrow was answered after "AAPL" for today, from a series read
\* from the live source
C29_Witness ==
  /\ out.fn = "handlePredict"
  /\ out.pc = "done"
  /\ out.status = 200
  /\ out.symbol = StringSymbol(<<"a", "a", "p", "l">>)
  /\ out.timeframe = "tomorrow"
  /\ out.before.has
  /\ out.before.status = 200
  /\ out.before.timeframe = "today"
  /\ out.before.series = ParseTimeSeries(NewestFirstBody.timeSeries)
  /\ last.kind = "hit"

----------------------------------------------------------------------------
(* The page component (checked under SpecPage).                             *)

\* C30: whatever the user does and in whatever order the responses arrive,
\* loading is true while a request is in flight; once none is in flight,
\* loading is false and the prediction displayed is the result of the most
\* recently issued request among those that succeeded.
C30_DisplayFollowsLastRequest ==
  out.fn = "page" =>
    LET flying == {k \in 1..MaxIssued : out.flights[k] = "flying"}
        succeeded == {k \in 1..MaxIssued : out.flights[k] = "succeeded"}
    IN /\ flying # {} => out.loading
       /\ flying = {} =>
            /\ ~out.loading
            /\ succeeded # {} =>
                 out.prediction = CHOOSE k \in succeeded : \A j \in succeeded : j <= k

============================================================================
